---------------------------- MODULE Spec2Model ----------------------------
(***************************************************************************)
(* A model of the core of opkg (libopkg): the Debian version algebra of    *)
(* pkg.c / pkg_parse.c and the dependency resolver of pkg_depends.c.       *)
(*                                                                         *)
(* C strings are sequences of one-character strings; the terminating NUL   *)
(* is the position one past the end of the sequence.  A NULL pointer is    *)
(* the value Null.                                                         *)
(***************************************************************************)
EXTENDS Integers, Sequences, FiniteSets, TLC

(***************************************************************************)
(* Bounds of the model.                                                    *)
(***************************************************************************)
\* longest enumerated raw version string (the named examples are longer)
MaxLen == 2
\* most compound dependencies of the requested package
MaxDeps == 2
\* most top-level calls of the resolver in one behaviour
MaxRuns == 2

\* the terminating NUL of a C string, which no C string contains
NUL == "NUL"
\* a NULL char pointer: the one sequence that is no C string
Null == <<NUL>>

(***************************************************************************)
(* <ctype.h> in the C locale, on the characters the model uses.            *)
(***************************************************************************)
DigitChars == <<"0", "1", "2", "3", "4", "5", "6", "7", "8", "9">>
LowerChars == <<"a", "b", "c", "d", "e", "f", "g", "h", "i", "j", "k", "l", "m",
                "n", "o", "p", "q", "r", "s", "t", "u", "v", "w", "x", "y", "z">>
UpperChars == <<"A", "B", "C", "D", "E", "F", "G", "H", "I", "J", "K", "L", "M",
                "N", "O", "P", "Q", "R", "S", "T", "U", "V", "W", "X", "Y", "Z">>

Range(s) == {s[i] : i \in 1..Len(s)}

IndexIn(s, c) == CHOOSE i \in 1..Len(s) : s[i] = c

isdigit(c) == c \in Range(DigitChars)

isalpha(c) == c \in Range(LowerChars) \cup Range(UpperChars)

isspace(c) == c \in {" ", "\t", "\n"}

DigitVal(c) == IndexIn(DigitChars, c) - 1

\* the ASCII code of a character
Ascii(c) ==
    CASE c = NUL -> 0
      [] isdigit(c) -> 48 + DigitVal(c)
      [] c \in Range(UpperChars) -> 64 + IndexIn(UpperChars, c)
      [] c \in Range(LowerChars) -> 96 + IndexIn(LowerChars, c)
      [] c = "\t" -> 9
      [] c = "\n" -> 10
      [] c = " " -> 32
      [] c = "(" -> 40
      [] c = ")" -> 41
      [] c = "*" -> 42
      [] c = "+" -> 43
      [] c = "," -> 44
      [] c = "-" -> 45
      [] c = "." -> 46
      [] c = ":" -> 58
      [] c = "<" -> 60
      [] c = "=" -> 61
      [] c = ">" -> 62
      [] c = "_" -> 95
      [] c = "|" -> 124
      [] c = "~" -> 126

\* *p for a pointer p = s + (i - 1) into the C string s
At(s, i) == IF i <= Len(s) THEN s[i] ELSE NUL

\* the C string a pointer may be NULL for: NULL reads as ""
StrOrEmpty(s) == IF s = Null THEN <<>> ELSE s

(***************************************************************************)
(* pkg.c: the version comparison of libdpkg.                               *)
(***************************************************************************)
\* order without the special case of the tilde
order_NoTilde(x) ==
    IF isdigit(x) THEN 0
    ELSE IF x = NUL THEN 0
    ELSE IF isalpha(x) THEN Ascii(x)
    ELSE Ascii(x) + 256

order(x) ==
    IF x = "~" THEN -1
    ELSE IF isdigit(x) THEN 0
    ELSE IF x = NUL THEN 0
    ELSE IF isalpha(x) THEN Ascii(x)
    ELSE Ascii(x) + 256

\* the loop over the non-digit prefix: <<"ret", r>> when it returns r,
\* <<"go", i, j>> when it ends with val = s + (i-1), ref = t + (j-1)
RECURSIVE NonDigitLoop(_, _, _, _)
NonDigitLoop(val, ref, i, j) ==
    IF (At(val, i) # NUL /\ ~isdigit(At(val, i)))
         \/ (At(ref, j) # NUL /\ ~isdigit(At(ref, j)))
    THEN LET vc == order(At(val, i))
             rc == order(At(ref, j))
         IN IF vc # rc THEN <<"ret", vc - rc>>
            ELSE NonDigitLoop(val, ref, i + 1, j + 1)
    ELSE <<"go", i, j>>

\* leading zeros kept
SkipZeros_Kept(s, i) == i

\* while (*val == '0') val++;
RECURSIVE SkipZeros(_, _)
SkipZeros(s, i) == IF At(s, i) = "0" THEN SkipZeros(s, i + 1) ELSE i

\* while (isdigit(*val) && isdigit(*ref)) { if (!first_diff) ...; val++; ref++; }
RECURSIVE DigitLoop(_, _, _, _, _)
DigitLoop(val, ref, i, j, first_diff) ==
    IF isdigit(At(val, i)) /\ isdigit(At(ref, j))
    THEN DigitLoop(val, ref, i + 1, j + 1,
                   IF first_diff = 0
                   THEN Ascii(At(val, i)) - Ascii(At(ref, j))
                   ELSE first_diff)
    ELSE <<i, j, first_diff>>

\* the outer loop of verrevcmp, from val = s + (i-1), ref = t + (j-1)
RECURSIVE VerRevLoop(_, _, _, _)
VerRevLoop(val, ref, i, j) ==
    IF At(val, i) # NUL \/ At(ref, j) # NUL
    THEN LET nd == NonDigitLoop(val, ref, i, j)
         IN IF nd[1] = "ret" THEN nd[2]
            ELSE LET iz == SkipZeros(val, nd[2])
                     jz == SkipZeros(ref, nd[3])
                     dl == DigitLoop(val, ref, iz, jz, 0)
                 IN IF isdigit(At(val, dl[1])) THEN 1
                    ELSE IF isdigit(At(ref, dl[2])) THEN -1
                    ELSE IF dl[3] # 0 THEN dl[3]
                    ELSE VerRevLoop(val, ref, dl[1], dl[2])
    ELSE 0

verrevcmp(val, ref) == VerRevLoop(StrOrEmpty(val), StrOrEmpty(ref), 1, 1)

\* >= for >
UnsignedGreater_OrEqual(x, y) ==
    IF (x < 0) = (y < 0) THEN x >= y ELSE x < 0

\* (unsigned int) x > (unsigned int) y, for ints x and y
UnsignedGreater(x, y) ==
    IF (x < 0) = (y < 0) THEN x > y ELSE x < 0

\* a pkg_t as far as versions go: the blob fields PKG_EPOCH, PKG_VERSION,
\* PKG_REVISION; an unset string field is Null, an unset int field reads 0
pkg_compare_versions(pkg, ref_pkg) ==
    LET epoch1 == pkg.epoch
        epoch2 == ref_pkg.epoch
        r1 == verrevcmp(pkg.version, ref_pkg.version)
    IN IF UnsignedGreater(epoch1, epoch2) THEN 1
       ELSE IF UnsignedGreater(epoch2, epoch1) THEN -1
       ELSE IF r1 # 0 THEN r1
       ELSE verrevcmp(pkg.revision, ref_pkg.revision)

(***************************************************************************)
(* pkg.c, pkg_parse.c: parsing a version string into a package.            *)
(***************************************************************************)
\* a package fresh from pkg_new(), as far as versions go: no blob field set
pkg_new == [epoch |-> 0, version |-> Null, revision |-> Null]

RECURSIVE SkipSpaces(_, _)
SkipSpaces(s, i) == IF isspace(At(s, i)) THEN SkipSpaces(s, i + 1) ELSE i

RECURSIVE TrimEnd(_, _)
TrimEnd(s, len) == IF len > 0 /\ isspace(s[len]) THEN TrimEnd(s, len - 1) ELSE len

\* what pkg_set_string stores for s: s without the white space around it, or
\* nothing at all (Null: the field keeps its old value) when that is empty
Trimmed(s) ==
    IF s = Null THEN Null
    ELSE LET i == SkipSpaces(s, 1)
             t == SubSeq(s, i, Len(s))
             len == TrimEnd(t, Len(t))
         IN IF len = 0 THEN Null ELSE SubSeq(t, 1, len)

pkg_set_string(pkg, field, s) ==
    IF Trimmed(s) = Null THEN pkg ELSE [pkg EXCEPT ![field] = Trimmed(s)]

\* the digits of strtoul: the value accumulated from s + (i-1) on (the epoch
\* texts of the model are short: the value stays far below ULONG_MAX)
RECURSIVE StrtoulDigits(_, _, _)
StrtoulDigits(s, i, acc) ==
    IF isdigit(At(s, i))
    THEN StrtoulDigits(s, i + 1, acc * 10 + DigitVal(At(s, i)))
    ELSE acc

\* (int) strtoul(s, NULL, 10), the int that pkg_set_int stores: strtoul
\* negates the value of a text with a minus sign as an unsigned long, which
\* reads as the negative number when it is cut to an int
strtoul(s) ==
    LET i == SkipSpaces(s, 1)
        neg == At(s, i) = "-"
        j == IF At(s, i) \in {"-", "+"} THEN i + 1 ELSE i
        v == StrtoulDigits(s, j, 0)
    IN IF neg THEN 0 - v ELSE v

\* strchr / strrchr: the index of the first / last c in s, 0 for NULL
strchr(s, c) ==
    IF c \in Range(s) THEN CHOOSE i \in 1..Len(s) :
                               s[i] = c /\ \A k \in 1..(i - 1) : s[k] # c
    ELSE 0

strrchr(s, c) ==
    IF c \in Range(s) THEN CHOOSE i \in 1..Len(s) :
                               s[i] = c /\ \A k \in (i + 1)..Len(s) : s[k] # c
    ELSE 0

VersionTag == <<"V", "e", "r", "s", "i", "o", "n", ":">>

parse_version(pkg, vstr0) ==
    LET vstr1 == IF Len(vstr0) >= 8 /\ SubSeq(vstr0, 1, 8) = VersionTag
                 THEN SubSeq(vstr0, 9, Len(vstr0)) ELSE vstr0
        vstr2 == SubSeq(vstr1, SkipSpaces(vstr1, 1), Len(vstr1))
        colon == strchr(vstr2, ":")
        p1 == IF colon # 0
              THEN [pkg EXCEPT !.epoch = strtoul(vstr2)]
              ELSE pkg
        dup == IF colon # 0 THEN SubSeq(vstr2, colon + 1, Len(vstr2)) ELSE vstr2
        rev == strrchr(dup, "-")
        p2 == IF rev # 0
              THEN pkg_set_string(p1, "revision", SubSeq(dup, rev + 1, Len(dup)))
              ELSE p1
        dup2 == IF rev # 0 THEN SubSeq(dup, 1, rev - 1) ELSE dup
    IN pkg_set_string(p2, "version", dup2)

(***************************************************************************)
(* pkg_depends.c: does a package's version satisfy an atom's constraint.   *)
(***************************************************************************)
Constraints == {"NONE", "EARLIER", "EARLIER_EQUAL", "EQUAL", "LATER_EQUAL", "LATER"}

\* the tests of version_constraints_satisfied on the comparison it made
ConstraintTest(constraint, comparison) ==
    IF constraint = "EARLIER" /\ comparison < 0 THEN TRUE
    ELSE IF constraint = "LATER" /\ comparison > 0 THEN TRUE
    ELSE IF comparison = 0 THEN TRUE
    ELSE IF constraint = "LATER_EQUAL" /\ comparison >= 0 THEN TRUE
    ELSE IF constraint = "EARLIER_EQUAL" /\ comparison <= 0 THEN TRUE
    ELSE FALSE

version_constraints_satisfied(depends, pkg) ==
    IF depends.constraint = "NONE" THEN TRUE
    ELSE ConstraintTest(depends.constraint,
             pkg_compare_versions(pkg, parse_version(pkg_new, depends.version)))

(***************************************************************************)
(* The package database the resolver reads.  A concrete package is a       *)
(* record; db is the sequence of the packages in the order they were       *)
(* parsed; an abstract package is known by its name.                       *)
(***************************************************************************)
DependTypes == {"PREDEPEND", "DEPEND", "RECOMMEND", "SUGGEST", "GREEDY_DEPEND"}

\* the n-th concrete package of the abstract package a is db[ab_pkgs(db, a)[n]]
RECURSIVE SelectIdx(_, _, _)
SelectIdx(db, i, a) ==
    IF i > Len(db) THEN <<>>
    ELSE (IF db[i].name = a THEN <<i>> ELSE <<>>) \o SelectIdx(db, i + 1, a)

ab_pkgs(db, a) == SelectIdx(db, 1, a)

\* a->provided_by: the abstract packages whose concrete packages list a in
\* their Provides (each its own name first), in the order they were parsed
RECURSIVE ProvidersFrom(_, _, _, _)
ProvidersFrom(db, i, a, acc) ==
    IF i > Len(db) THEN acc
    ELSE ProvidersFrom(db, i + 1, a,
             IF a \in Range(db[i].provides) /\ db[i].name \notin Range(acc)
             THEN Append(acc, db[i].name) ELSE acc)

provided_by(db, a) == ProvidersFrom(db, 1, a, <<>>)

pkg_installed_and_constraint_satisfied(pkg, depend) ==
    /\ pkg.state_status \in {"SS_INSTALLED", "SS_UNPACKED"}
    /\ version_constraints_satisfied(depend, pkg)

pkg_constraint_satisfied(pkg, depend) == version_constraints_satisfied(depend, pkg)

constraint_fcn(which, pkg, depend) ==
    IF which = "installed" THEN pkg_installed_and_constraint_satisfied(pkg, depend)
    ELSE pkg_constraint_satisfied(pkg, depend)

\* The best candidate among the concrete packages of the providers of apkg
\* that have a supported architecture and pass constraint_fcn: the one of the
\* highest architecture priority, then of the highest version, then the one
\* parsed first; 0 when there is none.
VersionBeats(c, i, k) == c > 0 \/ (c = 0 /\ i <= k)

Beats(db, i, k) ==
    \/ db[i].arch_priority > db[k].arch_priority
    \/ /\ db[i].arch_priority = db[k].arch_priority
       /\ VersionBeats(pkg_compare_versions(db[i], db[k]), i, k)

BestOf(db, cands) ==
    IF cands = {} THEN 0
    ELSE CHOOSE i \in cands : \A k \in cands : Beats(db, i, k)

pkg_hash_fetch_best_installation_candidate(db, apkg, which, depend) ==
    BestOf(db, {i \in 1..Len(db) :
                   /\ db[i].name \in Range(provided_by(db, apkg))
                   /\ db[i].arch_priority > 0
                   /\ constraint_fcn(which, db[i], depend)})

\* vec is a pkg_vec_t of packages of db, held as their indices
is_pkg_in_pkg_vec(db, vec, pkg) ==
    \E i \in 1..Len(vec) :
        /\ db[pkg].name = db[vec[i]].name
        /\ pkg_compare_versions(db[pkg], db[vec[i]]) = 0
        /\ db[pkg].architecture = db[vec[i]].architecture

pkg_vec_insert(vec, pkg) == Append(vec, pkg)

constraint_to_str(c) ==
    CASE c = "NONE" -> ""
      [] c = "EARLIER" -> "< "
      [] c = "EARLIER_EQUAL" -> "<= "
      [] c = "EQUAL" -> "= "
      [] c = "LATER_EQUAL" -> ">= "
      [] c = "LATER" -> "> "

\* a C string as text
RECURSIVE Text(_)
Text(s) == IF s = <<>> THEN "" ELSE Head(s) \o Text(Tail(s))

RECURSIVE DependStrFrom(_, _)
DependStrFrom(poss, i) ==
    IF i > Len(poss) THEN ""
    ELSE (IF i # 1 THEN " | " ELSE "")
         \o poss[i].pkg
         \o (IF poss[i].version # Null
             THEN " (" \o constraint_to_str(poss[i].constraint)
                       \o Text(poss[i].version) \o ")"
             ELSE "")
         \o DependStrFrom(poss, i + 1)

\* the printable form of the idx-th compound dependency of pkg (idx from 1)
pkg_depend_str(pkg, idx) == DependStrFrom(pkg.depends[idx].possibilities, 1)

add_unresolved_dep_Dropped(pkg, the_lost, ref_ndx) == the_lost

\* char ** lists of unresolved dependencies: NULL is the empty sequence (a
\* list that is not NULL has at least one entry)
add_unresolved_dep(pkg, the_lost, ref_ndx) == Append(the_lost, pkg_depend_str(pkg, ref_ndx))

merge_unresolved(oldstuff, newstuff) ==
    IF newstuff = <<>> THEN oldstuff ELSE oldstuff \o newstuff

(***************************************************************************)
(* The state of the resolver: the database, the dependencies_checked flag  *)
(* of every abstract package, the call stack of                            *)
(* pkg_hash_fetch_unsatisfied_dependencies, and the package vectors the    *)
(* calls fill.                                                             *)
(***************************************************************************)
VARIABLES
    db,       \* the packages, in the order they were parsed
    checked,  \* checked[a]: a->dependencies_checked
    stack,    \* the frames of the calls in progress, the innermost last
    vecs,     \* the pkg_vec_t in use: vecs[1] is the caller's, the others
              \* are the tmp_vec of the greedy recursions in progress
    ret,      \* what the call that returned last returned
    phase,    \* "idle", "running" (a top-level call is in progress), "done"
    runs,     \* the number of top-level calls so far
    call,     \* the top-level call in progress or done last
    result,   \* what the top-level call done last gave its caller
    first,    \* what the first top-level call gave its caller
    visits,   \* visits[a]: how often the top-level call got past the cycle
              \* guard for a
    steps     \* the number of steps the top-level call has taken

resVars == <<db, checked, stack, vecs, ret, phase, runs, call, result, first,
             visits, steps>>

AbstractNames == {"P", "S", "Q", "V", "X"}

NoResult == [pkg |-> 0, to_install |-> <<>>, unresolved |-> <<>>, rc |-> 0 - 1]

\* the resolver at rest on an empty database
ResIdle ==
    /\ db = <<>>
    /\ checked = [a \in AbstractNames |-> FALSE]
    /\ stack = <<>>
    /\ vecs = <<>>
    /\ ret = [unresolved |-> <<>>, rc |-> 0]
    /\ phase = "idle"
    /\ runs = 0
    /\ call = [pkg |-> 0, clean |-> TRUE, db |-> <<>>]
    /\ result = NoResult
    /\ first = NoResult
    /\ visits = [a \in AbstractNames |-> 0]
    /\ steps = 0

(***************************************************************************)
(* The state of the stanza parser: the package P whose fields are being    *)
(* parsed, the abstract packages of the hash table, and the other packages *)
(* of the hash table.                                                      *)
(***************************************************************************)
VARIABLES
    world,    \* the other packages of the hash table
    the_pkg,  \* P: its PKG_PROVIDES, PKG_REPLACES, PKG_CONFLICTS and
              \* PKG_DEPENDS blobs
    ab,       \* ab[a]: the provided_by and replaced_by vectors of abstract a
    fault,    \* "none", or how the process died
    lines,    \* the field lines pkg_parse_line has handled so far
    confl,    \* what pkg_hash_fetch_conflicts(P) returned
    out,      \* what pkg_formatted_info(P) printed
    back      \* what parsing out gave

pkgVars == <<world, the_pkg, ab, fault, lines, confl, out, back>>

\* the cell of an array of pointers that holds NULL
NullPtr == "NULL"

\* a blob that was never set: pkg_get_ptr gives NULL (an array that was set
\* has a cell at least)
NoBlob == <<>>

\* an array entry that was never written
Undef == "undefined"

\* what a call gave: rc is "not called", "returned" or "SIGSEGV"
NotCalled == [rc |-> "not called", val |-> <<>>]

Returned(val) == [rc |-> "returned", val |-> val]

Died == [rc |-> "SIGSEGV", val |-> <<>>]

NoPkg == [provides |-> NoBlob, replaces |-> NoBlob, conflicts |-> NoBlob,
          depends |-> NoBlob]

NoAbstracts == [a \in AbstractNames |-> [provided_by |-> <<>>, replaced_by |-> <<>>]]

\* the stanza parser at rest
PkgIdle ==
    /\ world = <<>>
    /\ the_pkg = NoPkg
    /\ ab = NoAbstracts
    /\ fault = "none"
    /\ lines = <<>>
    /\ confl = NotCalled
    /\ out = NotCalled
    /\ back = NotCalled

(***************************************************************************)
(* The state of pkg_merge: the two records and what they were before.      *)
(***************************************************************************)
VARIABLES oldpkg, newpkg, old0, new0, mpc

mrgVars == <<oldpkg, newpkg, old0, new0, mpc>>

MrgIdle ==
    /\ oldpkg = <<>>
    /\ newpkg = <<>>
    /\ old0 = <<>>
    /\ new0 = <<>>
    /\ mpc = "idle"

(***************************************************************************)
(* The state of the text conversions: parseDepends on one item of a        *)
(* dependency field.                                                       *)
(***************************************************************************)
VARIABLES written, dstr, dtype, compound

depVars == <<written, dstr, dtype, compound>>

DepIdle ==
    /\ written = <<>>
    /\ dstr = <<>>
    /\ dtype = "UNSPEC"
    /\ compound = NotCalled

\* the Status line: a record, the stanza printed for it or written by hand,
\* and what parsing the stanza gives
VARIABLES rec, stanza, parsed, spc

stVars == <<rec, stanza, parsed, spc>>

StIdle ==
    /\ rec = <<>>
    /\ stanza = <<>>
    /\ parsed = NotCalled
    /\ spc = "idle"

\* a conffile entry, the file it names, the build, and what
\* conffile_has_been_modified returns
VARIABLES conffile, file, have_md5, modified

cfVars == <<conffile, file, have_md5, modified>>

CfIdle ==
    /\ conffile = <<>>
    /\ file = <<>>
    /\ have_md5 = FALSE
    /\ modified = NotCalled

txtVars == <<depVars, stVars, cfVars>>

TxtIdle == DepIdle /\ StIdle /\ CfIdle

(***************************************************************************)
(* The version algebra as a state machine: two raw version strings are     *)
(* parsed, compared, and the first is tested against an atom that carries  *)
(* the second.                                                             *)
(***************************************************************************)
VARIABLES va, vb, pa, pb, cmp, dep, sat, vpc

verVars == <<va, vb, pa, pb, cmp, dep, sat, vpc>>

vars == <<verVars, resVars, pkgVars, mrgVars, txtVars>>

Alphabet == {"0", "1", "a", "~", "-"}

RECURSIVE StringsUpTo(_)
StringsUpTo(n) ==
    IF n = 0 THEN {<<>>}
    ELSE StringsUpTo(n - 1)
           \cup {Append(s, c) : s \in {t \in StringsUpTo(n - 1) : Len(t) = n - 1},
                                c \in Alphabet}

\* the versions of the scenarios and some more with an epoch and a revision
Examples ==
    { <<"1", ":", "2", ".", "0", "-", "1">>, <<"2", ".", "0", "-", "1">>,
      <<"1", ".", "0", "~", "r", "c", "1">>, <<"1", ".", "0">>,
      <<"1", ".", "0", "0">>, <<"1", ".", "0", "-", "0">>,
      <<"1", ".", "0", "-", "1">>, <<"2", ".", "0">>,
      <<"0", ":", "1", ".", "0">>, <<"1", ".", "0", "+", "b">>,
      <<"1", ".", "0", "-", "~", "1">>, <<"1", "0", ":", "a", "-", "0", "1">>,
      <<"1", ":", "1">>, <<"0", "1", ":", "1">>, <<"1", ":">>, <<":", "1">>,
      <<"-", "1", ":", "1">>, <<"a", ":", "1">>, <<":", ":">> }

Versions == StringsUpTo(MaxLen) \cup Examples

InitVer ==
    /\ va \in Versions
    /\ vb \in Versions
    /\ pa = pkg_new
    /\ pb = pkg_new
    /\ cmp = 0
    /\ dep = [constraint |-> "NONE", version |-> Null]
    /\ sat = FALSE
    /\ vpc = "raw"
    /\ ResIdle
    /\ PkgIdle
    /\ MrgIdle
    /\ TxtIdle

\* the version machine at rest
VerIdle ==
    /\ va = <<>> /\ vb = <<>> /\ pa = pkg_new /\ pb = pkg_new /\ cmp = 0
    /\ dep = [constraint |-> "NONE", version |-> Null] /\ sat = FALSE /\ vpc = "raw"

ParseVersions ==
    /\ vpc = "raw"
    /\ pa' = parse_version(pkg_new, va)
    /\ pb' = parse_version(pkg_new, vb)
    /\ vpc' = "parsed"
    /\ UNCHANGED <<va, vb, cmp, dep, sat, resVars, pkgVars, mrgVars, txtVars>>

CompareVersions ==
    /\ vpc = "parsed"
    /\ cmp' = pkg_compare_versions(pa, pb)
    /\ vpc' = "compared"
    /\ UNCHANGED <<va, vb, pa, pb, dep, sat, resVars, pkgVars, mrgVars, txtVars>>

CheckConstraint ==
    /\ vpc = "compared"
    /\ \E c \in Constraints :
          /\ dep' = [constraint |-> c, version |-> vb]
          /\ sat' = version_constraints_satisfied(dep', pa)
    /\ vpc' = "checked"
    /\ UNCHANGED <<va, vb, pa, pb, cmp, resVars, pkgVars, mrgVars, txtVars>>

NextVer == ParseVersions \/ CompareVersions \/ CheckConstraint

SpecVer == InitVer /\ [][NextVer]_vars

(***************************************************************************)
(* The databases of the model: the requested package P, and S and Q, which *)
(* both provide the virtual package V; no package is named X.              *)
(***************************************************************************)
V10 == <<"1", ".", "0">>
V20 == <<"2", ".", "0">>

Atom(name) == [pkg |-> name, constraint |-> "NONE", version |-> Null]

AtomV(name, c, v) == [pkg |-> name, constraint |-> c, version |-> v]

Cd(type, atoms) == [type |-> type, possibilities |-> atoms]

Pkg(name, vstr, arch, prio, state, deps, provides) ==
    LET v == parse_version(pkg_new, vstr)
    IN [name |-> name, epoch |-> v.epoch, version |-> v.version,
        revision |-> v.revision, architecture |-> arch, arch_priority |-> prio,
        state_want |-> state[1], state_status |-> state[2],
        depends |-> deps, provides |-> <<name>> \o provides]

PCompounds ==
    {Cd("DEPEND", al) : al \in {<<Atom("S")>>, <<Atom("X")>>, <<Atom("V")>>,
                                <<Atom("X"), Atom("S")>>, <<Atom("S"), Atom("Q")>>,
                                <<AtomV("S", "LATER_EQUAL", V20)>>,
                                <<AtomV("S", "LATER_EQUAL", V10)>>}}
      \cup {Cd("PREDEPEND", al) : al \in {<<Atom("X"), AtomV("S", "LATER_EQUAL", V20)>>}}
      \cup {Cd("RECOMMEND", al) : al \in {<<Atom("S")>>, <<Atom("X")>>,
                                          <<Atom("S"), Atom("Q")>>}}
      \cup {Cd("SUGGEST", al) : al \in {<<Atom("S")>>, <<Atom("X")>>}}
      \cup {Cd("GREEDY_DEPEND", al) : al \in {<<Atom("S")>>, <<Atom("V")>>}}

SCompounds ==
    {Cd("DEPEND", <<Atom(n)>>) : n \in {"Q", "X", "P", "S"}}
      \cup {Cd("RECOMMEND", <<Atom("Q")>>), Cd("GREEDY_DEPEND", <<Atom("Q")>>)}

QCompounds == {Cd("DEPEND", <<Atom(n)>>) : n \in {"S", "X"}}

RECURSIVE DepLists(_, _)
DepLists(C, n) ==
    IF n = 0 THEN {<<>>}
    ELSE DepLists(C, n - 1)
           \cup {Append(l, c) : l \in {m \in DepLists(C, n - 1) : Len(m) = n - 1},
                                c \in C}

SStates == {<<"SW_UNKNOWN", "SS_NOT_INSTALLED">>, <<"SW_INSTALL", "SS_INSTALLED">>,
            <<"SW_DEINSTALL", "SS_NOT_INSTALLED">>, <<"SW_PURGE", "SS_NOT_INSTALLED">>}

QStates == {<<"SW_UNKNOWN", "SS_NOT_INSTALLED">>, <<"SW_INSTALL", "SS_UNPACKED">>,
            <<"SW_INSTALL", "SS_NOT_INSTALLED">>}

\* a database: P, S and Q in the order they were parsed
Database(pd, ss, sd, qs, qd) ==
    <<Pkg("P", V10, "all", 1, <<"SW_UNKNOWN", "SS_NOT_INSTALLED">>, pd, <<>>),
      Pkg("S", V10, "arm", 10, ss, sd, <<"V">>),
      Pkg("Q", V10, "all", 1, qs, qd, <<"V">>)>>

(***************************************************************************)
(* pkg_depends.c: pkg_hash_fetch_unsatisfied_dependencies, one frame per   *)
(* call.  A frame is at "entry", in the loop over the compound             *)
(* dependencies ("loop", at depends[i]), or waiting for the recursive call *)
(* it made for depends[i] to return.                                       *)
(***************************************************************************)
NewFrame(p, v) ==
    [pkg |-> p, vec |-> v, pc |-> "entry", i |-> 1, the_lost |-> <<>>,
     g |-> 1, satisfier |-> 0]

Top == stack[Len(stack)]

Pop(st) == SubSeq(st, 1, Len(st) - 1)

SetTop(f) == [stack EXCEPT ![Len(stack)] = f]

\* the top frame returns: *unresolved = unres; return rc;
Return(unres, rc) ==
    /\ ret' = [unresolved |-> unres, rc |-> rc]
    /\ stack' = Pop(stack)
    /\ IF Len(stack) = 1
       THEN /\ phase' = "done"
            /\ result' = [pkg |-> call.pkg, to_install |-> vecs[1],
                          unresolved |-> unres, rc |-> rc]
            /\ first' = IF first = NoResult THEN result' ELSE first
       ELSE UNCHANGED <<phase, result, first>>

\* the caller: pkg_hash_fetch_unsatisfied_dependencies(db[p], unsatisfied,
\* &unresolved) with an empty unsatisfied; the first call is for the
\* requested package
Call(p) ==
    /\ phase \in {"idle", "done"}
    /\ runs < MaxRuns
    /\ runs = 0 => p = 1
    /\ stack' = <<NewFrame(p, 1)>>
    /\ vecs' = << <<>> >>
    /\ phase' = "running"
    /\ runs' = runs + 1
    /\ call' = [pkg |-> p, clean |-> \A a \in AbstractNames : ~checked[a], db |-> db]
    /\ visits' = [a \in AbstractNames |-> 0]
    /\ steps' = 0
    /\ UNCHANGED <<db, checked, ret, result, first>>

\* the sweep that clears dependencies_checked on every abstract package
Reset ==
    /\ phase = "done"
    /\ \E a \in AbstractNames : checked[a]
    /\ checked' = [a \in AbstractNames |-> FALSE]
    /\ UNCHANGED <<db, stack, vecs, ret, phase, runs, call, result, first, visits, steps>>

\* line 76: has a call been made for the abstract package
dependencies_checked_Never(chk, ab_pkg) == FALSE

dependencies_checked(chk, ab_pkg) == chk[ab_pkg]

\* lines 71-90: the cycle guard and the package without dependencies
Enter ==
    /\ phase = "running"
    /\ Top.pc = "entry"
    /\ LET ab_pkg == db[Top.pkg].name
       IN IF dependencies_checked(checked, ab_pkg)
          THEN /\ Return(<<>>, 0)
               /\ UNCHANGED <<checked, visits>>
          ELSE /\ checked' = [checked EXCEPT ![ab_pkg] = TRUE]
               /\ visits' = [visits EXCEPT ![ab_pkg] = @ + 1]
               /\ IF db[Top.pkg].depends = <<>>
                  THEN Return(<<>>, 0)
                  ELSE /\ stack' = SetTop([Top EXCEPT !.pc = "loop"])
                       /\ UNCHANGED <<ret, phase, result, first>>
    /\ UNCHANGED <<db, vecs, runs, call>>

InLoop ==
    /\ phase = "running"
    /\ Top.pc = "loop"
    /\ Top.i <= Len(db[Top.pkg].depends)

compound_depend == db[Top.pkg].depends[Top.i]

\* lines 101-116: the packages the greedy loops visit, in the order of the
\* loops over j (atoms), l (providers) and k (their concrete packages)
RECURSIVE Flatten(_)
Flatten(ss) == IF ss = <<>> THEN <<>> ELSE Head(ss) \o Flatten(Tail(ss))

GreedyScouts(d, cd) ==
    Flatten([j \in 1..Len(cd.possibilities) |->
               LET ab_providers == provided_by(d, cd.possibilities[j].pkg)
               IN Flatten([l \in 1..Len(ab_providers) |-> ab_pkgs(d, ab_providers[l])])])

\* lines 119-121: not installed, and not already known about?
GreedyEligible(d, chk, vec, pkg_scout) ==
    /\ d[pkg_scout].state_want # "SW_INSTALL"
    /\ ~chk[d[pkg_scout].name]
    /\ ~is_pkg_in_pkg_vec(d, vec, pkg_scout)

\* the first position from g on whose package the greedy loops recurse on, or 0
NextScout(d, chk, vec, scouts, g) ==
    LET hits == {n \in g..Len(scouts) : GreedyEligible(d, chk, vec, scouts[n])}
    IN IF hits = {} THEN 0 ELSE CHOOSE n \in hits : \A m \in hits : n <= m

\* lines 99-127: a greedy compound, up to its next recursive call
GreedyCall(scouts, n) ==
    IF n = 0
    THEN /\ stack' = SetTop([Top EXCEPT !.i = @ + 1, !.g = 1])
         /\ UNCHANGED vecs
    ELSE /\ stack' = Append(SetTop([Top EXCEPT !.pc = "wait_greedy", !.g = n]),
                            NewFrame(scouts[n], Len(vecs) + 1))
         /\ vecs' = Append(vecs, <<>>)

GreedyFrom(scouts) ==
    GreedyCall(scouts, NextScout(db, checked, vecs[Top.vec], scouts, Top.g))

ProcessGreedy ==
    /\ InLoop
    /\ compound_depend.type = "GREEDY_DEPEND"
    /\ GreedyFrom(GreedyScouts(db, compound_depend))
    /\ UNCHANGED <<db, checked, ret, phase, runs, call, result, first, visits>>

\* lines 131-141: every package the recursion asked for is wanted installed
GreedyOk_Always(d, tmp_vec, rc) == TRUE

GreedyOk(d, tmp_vec, rc) ==
    \A m \in 1..rc : d[tmp_vec[m]].state_want = "SW_INSTALL"

GreedyAccept_Marks(d, vec, pkg_scout) ==
    <<[d EXCEPT ![pkg_scout].state_want = "SW_INSTALL"], pkg_vec_insert(vec, pkg_scout)>>

\* line 149: mark this one for installation
GreedyAccept(d, vec, pkg_scout) == <<d, pkg_vec_insert(vec, pkg_scout)>>

\* lines 128-158: the recursive call of a greedy compound has returned
GreedyReturn ==
    /\ phase = "running"
    /\ Top.pc = "wait_greedy"
    /\ LET scouts == GreedyScouts(db, compound_depend)
           pkg_scout == scouts[Top.g]
           tmp_vec == vecs[Len(vecs)]
           acc == GreedyAccept(db, vecs[Top.vec], pkg_scout)
       IN IF ret.unresolved = <<>> /\ GreedyOk(db, tmp_vec, ret.rc)
          THEN /\ db' = acc[1]
               /\ vecs' = [Pop(vecs) EXCEPT ![Top.vec] = acc[2]]
          ELSE /\ db' = db
               /\ vecs' = Pop(vecs)
    /\ stack' = SetTop([Top EXCEPT !.pc = "loop", !.g = @ + 1])
    /\ UNCHANGED <<checked, ret, phase, runs, call, result, first, visits>>

\* lines 175-186: the package found is tested again
InstalledAndSatisfies(d, satisfying_pkg, dependence_to_satisfy) ==
    /\ satisfying_pkg # 0
    /\ pkg_installed_and_constraint_satisfied(d[satisfying_pkg], dependence_to_satisfy)

\* lines 169-186: is the atom satisfied by an installed package
PassAAtom(d, dependence_to_satisfy) ==
    InstalledAndSatisfies(d,
        pkg_hash_fetch_best_installation_candidate(
            d, dependence_to_satisfy.pkg, "installed", dependence_to_satisfy),
        dependence_to_satisfy)

PassA_FirstAtomOnly(d, cd) == PassAAtom(d, cd.possibilities[1])

\* lines 166-188: is the compound satisfied by an installed package
PassA(d, cd) ==
    \E j \in 1..Len(cd.possibilities) : PassAAtom(d, cd.possibilities[j])

\* lines 199-205: the package found is tested again
Satisfies(d, found_pkg, dependence_to_satisfy) ==
    IF found_pkg # 0 /\ ~pkg_constraint_satisfied(d[found_pkg], dependence_to_satisfy)
    THEN 0 ELSE found_pkg

\* lines 207-212: user request overrides package recommendation
Vetoed_Never(d, cd, satisfying_pkg) == FALSE

Vetoed(d, cd, satisfying_pkg) ==
    /\ satisfying_pkg # 0
    /\ cd.type \in {"RECOMMEND", "SUGGEST"}
    /\ d[satisfying_pkg].state_want \in {"SW_DEINSTALL", "SW_PURGE"}

\* lines 192-226: the satisfier of the first atom, from the j-th on, that has
\* a candidate the user has not vetoed; 0 when no atom has one
RECURSIVE PassB(_, _, _)
RECURSIVE PassBAtom(_, _, _, _)
LaterOr(later, satisfying_pkg) == IF later # 0 THEN later ELSE satisfying_pkg

PassBAtom_LastWins(d, cd, j, satisfying_pkg) ==
    IF Vetoed(d, cd, satisfying_pkg) THEN PassB(d, cd, j + 1)
    ELSE LaterOr(PassB(d, cd, j + 1), satisfying_pkg)

PassBAtom(d, cd, j, satisfying_pkg) ==
    IF Vetoed(d, cd, satisfying_pkg) THEN PassB(d, cd, j + 1)
    ELSE IF satisfying_pkg # 0 THEN satisfying_pkg
    ELSE PassB(d, cd, j + 1)

PassB(d, cd, j) ==
    IF j > Len(cd.possibilities) THEN 0
    ELSE PassBAtom(d, cd, j,
             Satisfies(d,
                 pkg_hash_fetch_best_installation_candidate(
                     d, cd.possibilities[j].pkg, "any", cd.possibilities[j]),
                 cd.possibilities[j]))

\* lines 229-262: what a normal compound does once the passes are over: the
\* stack after it
NormalOutcome_SuggestAsRecommend(cd, found, satisfier_entry_pkg) ==
    IF found THEN SetTop([Top EXCEPT !.i = @ + 1])
    ELSE IF satisfier_entry_pkg = 0
    THEN IF cd.type \notin {"RECOMMEND", "SUGGEST"}
         THEN SetTop([Top EXCEPT
                  !.the_lost = add_unresolved_dep(db[Top.pkg], @, Top.i),
                  !.i = @ + 1])
         ELSE SetTop([Top EXCEPT !.i = @ + 1])
    ELSE IF /\ satisfier_entry_pkg # Top.pkg
            /\ ~is_pkg_in_pkg_vec(db, vecs[Top.vec], satisfier_entry_pkg)
    THEN Append(SetTop([Top EXCEPT !.pc = "wait_normal",
                                   !.satisfier = satisfier_entry_pkg]),
                NewFrame(satisfier_entry_pkg, Top.vec))
    ELSE SetTop([Top EXCEPT !.i = @ + 1])

NormalOutcome(cd, found, satisfier_entry_pkg) ==
    IF found THEN SetTop([Top EXCEPT !.i = @ + 1])
    ELSE IF satisfier_entry_pkg = 0
    THEN IF cd.type \notin {"RECOMMEND", "SUGGEST"}
         THEN SetTop([Top EXCEPT
                  !.the_lost = add_unresolved_dep(db[Top.pkg], @, Top.i),
                  !.i = @ + 1])
         ELSE SetTop([Top EXCEPT !.i = @ + 1])
    ELSE IF cd.type = "SUGGEST"
    THEN SetTop([Top EXCEPT !.i = @ + 1])
    ELSE IF /\ satisfier_entry_pkg # Top.pkg
            /\ ~is_pkg_in_pkg_vec(db, vecs[Top.vec], satisfier_entry_pkg)
    THEN Append(SetTop([Top EXCEPT !.pc = "wait_normal",
                                   !.satisfier = satisfier_entry_pkg]),
                NewFrame(satisfier_entry_pkg, Top.vec))
    ELSE SetTop([Top EXCEPT !.i = @ + 1])

\* lines 190-227: pass B runs if pass A found nothing
PassBUnless(found, d, cd) == IF found THEN 0 ELSE PassB(d, cd, 1)

PassesOutcome(d, cd, found) == NormalOutcome(cd, found, PassBUnless(found, d, cd))

\* lines 166-262: a normal compound, up to its recursive call if it makes one
ProcessNormal ==
    /\ InLoop
    /\ compound_depend.type # "GREEDY_DEPEND"
    /\ stack' = PassesOutcome(db, compound_depend, PassA(db, compound_depend))
    /\ UNCHANGED <<db, checked, vecs, ret, phase, runs, call, result, first, visits>>

\* lines 255-258: the recursive call of a normal compound has returned
NormalReturn_InsertsFirst ==
    /\ phase = "running"
    /\ Top.pc = "wait_normal"
    /\ vecs' = [vecs EXCEPT ![Top.vec] = <<Top.satisfier>> \o @]
    /\ stack' = SetTop([Top EXCEPT
                           !.the_lost = merge_unresolved(@, ret.unresolved),
                           !.pc = "loop", !.i = @ + 1, !.satisfier = 0])
    /\ UNCHANGED <<db, checked, ret, phase, runs, call, result, first, visits>>

NormalReturn ==
    /\ phase = "running"
    /\ Top.pc = "wait_normal"
    /\ vecs' = [vecs EXCEPT ![Top.vec] = pkg_vec_insert(@, Top.satisfier)]
    /\ stack' = SetTop([Top EXCEPT
                           !.the_lost = merge_unresolved(@, ret.unresolved),
                           !.pc = "loop", !.i = @ + 1, !.satisfier = 0])
    /\ UNCHANGED <<db, checked, ret, phase, runs, call, result, first, visits>>

\* lines 264-266: the loop is over
Finish ==
    /\ phase = "running"
    /\ Top.pc = "loop"
    /\ Top.i > Len(db[Top.pkg].depends)
    /\ Return(Top.the_lost, Len(vecs[Top.vec]))
    /\ UNCHANGED <<db, checked, vecs, runs, call, visits>>

ResStep ==
    /\ \/ Enter
       \/ ProcessGreedy
       \/ GreedyReturn
       \/ ProcessNormal
       \/ NormalReturn
       \/ Finish
    /\ steps' = steps + 1

InitRes ==
    /\ \E pd \in DepLists(PCompounds, MaxDeps),
          sd \in {<<>>} \cup {<<c>> : c \in SCompounds}, ss \in SStates,
          qd \in {<<>>} \cup {<<c>> : c \in QCompounds}, qs \in QStates :
            db = Database(pd, ss, sd, qs, qd)
    /\ checked = [a \in AbstractNames |-> FALSE]
    /\ stack = <<>>
    /\ vecs = <<>>
    /\ ret = [unresolved |-> <<>>, rc |-> 0]
    /\ phase = "idle"
    /\ runs = 0
    /\ call = [pkg |-> 0, clean |-> TRUE, db |-> <<>>]
    /\ result = NoResult
    /\ first = NoResult
    /\ visits = [a \in AbstractNames |-> 0]
    /\ steps = 0
    /\ va = <<>> /\ vb = <<>> /\ pa = pkg_new /\ pb = pkg_new /\ cmp = 0
    /\ dep = [constraint |-> "NONE", version |-> Null] /\ sat = FALSE /\ vpc = "raw"
    /\ PkgIdle
    /\ MrgIdle
    /\ TxtIdle

NextRes ==
    \/ \E p \in 1..Len(db) : Call(p) /\ UNCHANGED <<verVars, pkgVars, mrgVars, txtVars>>
    \/ Reset /\ UNCHANGED <<verVars, pkgVars, mrgVars, txtVars>>
    \/ ResStep /\ UNCHANGED <<verVars, pkgVars, mrgVars, txtVars>>

SpecRes == InitRes /\ [][NextRes]_vars

(***************************************************************************)
(* Claims about the version algebra.                                       *)
(***************************************************************************)
Sign(x) == IF x < 0 THEN -1 ELSE IF x > 0 THEN 1 ELSE 0

\* The reference Debian ordering, stated on the raw text: the epoch is the
\* number before the first colon, the revision what follows the last hyphen
\* of the rest, and a string is a list of (non-digit run, number) pairs.
RefEpochText(s) == IF ":" \in Range(s) THEN SubSeq(s, 1, strchr(s, ":") - 1) ELSE <<>>

RefRest(s) == IF ":" \in Range(s) THEN SubSeq(s, strchr(s, ":") + 1, Len(s)) ELSE s

RefUpstream(s) ==
    LET r == RefRest(s)
    IN IF "-" \in Range(r) THEN SubSeq(r, 1, strrchr(r, "-") - 1) ELSE r

RefRevision(s) ==
    LET r == RefRest(s)
    IN IF "-" \in Range(r) THEN SubSeq(r, strrchr(r, "-") + 1, Len(r)) ELSE <<>>

RECURSIVE RefNumber(_)
RefNumber(ds) ==
    IF ds = <<>> THEN 0
    ELSE 10 * RefNumber(SubSeq(ds, 1, Len(ds) - 1)) + DigitVal(ds[Len(ds)])

\* a version text whose epoch, when present, is an unsigned integer
WellFormed(s) ==
    /\ \A i \in 1..Len(s) : ~isspace(s[i])
    /\ ":" \in Range(s) =>
          /\ RefEpochText(s) # <<>>
          /\ \A i \in 1..Len(RefEpochText(s)) : isdigit(RefEpochText(s)[i])

\* '~' before the end of the string, the end before letters, letters before
\* every other character
RefRank(s, i) ==
    IF i > Len(s) THEN 1
    ELSE IF s[i] = "~" THEN 0
    ELSE IF isalpha(s[i]) THEN 2 + Ascii(s[i])
    ELSE 1000 + Ascii(s[i])

\* the length of the longest prefix of s made of digits (d) or of non-digits
RunLen(s, d) ==
    CHOOSE n \in 0..Len(s) :
        /\ \A i \in 1..n : isdigit(s[i]) = d
        /\ n < Len(s) => isdigit(s[n + 1]) # d

RefRunCmp(x, y) ==
    LET n == IF Len(x) > Len(y) THEN Len(x) ELSE Len(y)
        diff == {i \in 1..n : RefRank(x, i) # RefRank(y, i)}
    IN IF diff = {} THEN 0
       ELSE LET i == CHOOSE k \in diff : \A m \in diff : k <= m
            IN IF RefRank(x, i) < RefRank(y, i) THEN -1 ELSE 1

RECURSIVE RefStrCmp(_, _)
RefStrCmp(s, t) ==
    IF s = <<>> /\ t = <<>> THEN 0
    ELSE LET ns == RunLen(s, FALSE)
             nt == RunLen(t, FALSE)
             c == RefRunCmp(SubSeq(s, 1, ns), SubSeq(t, 1, nt))
             s1 == SubSeq(s, ns + 1, Len(s))
             t1 == SubSeq(t, nt + 1, Len(t))
             ds == RunLen(s1, TRUE)
             dt == RunLen(t1, TRUE)
             x == RefNumber(SubSeq(s1, 1, ds))
             y == RefNumber(SubSeq(t1, 1, dt))
         IN IF c # 0 THEN c
            ELSE IF x < y THEN -1
            ELSE IF x > y THEN 1
            ELSE RefStrCmp(SubSeq(s1, ds + 1, Len(s1)), SubSeq(t1, dt + 1, Len(t1)))

RefCompare(a, b) ==
    LET ea == RefNumber(RefEpochText(a))
        eb == RefNumber(RefEpochText(b))
        u == RefStrCmp(RefUpstream(a), RefUpstream(b))
    IN IF ea < eb THEN -1
       ELSE IF ea > eb THEN 1
       ELSE IF u # 0 THEN u
       ELSE RefStrCmp(RefRevision(a), RefRevision(b))

Compared == vpc = "compared"

\* C1: for every pair of well-formed versions, pkg_compare_versions has the
\* sign of the reference Debian ordering (epoch, then upstream, then revision;
\* '~' before end of string before letters before other characters; digit
\* runs as numbers); in particular 1:2.0-1 > 2.0-1, 1.0~rc1 < 1.0, 1.00 = 1.0.
C1_CompareIsDebianOrder ==
    Compared =>
        /\ WellFormed(va) /\ WellFormed(vb) => Sign(cmp) = RefCompare(va, vb)
        /\ va = <<"1", ":", "2", ".", "0", "-", "1">> /\ vb = <<"2", ".", "0", "-", "1">>
              => cmp > 0
        /\ va = <<"1", ".", "0", "~", "r", "c", "1">> /\ vb = <<"1", ".", "0">>
              => cmp < 0
        /\ va = <<"1", ".", "0", "0">> /\ vb = <<"1", ".", "0">> => cmp = 0

C1_Witness ==
    /\ Compared
    /\ va = <<"1", ".", "0", "0">>
    /\ vb = <<"1", ".", "0">>
    /\ cmp = 0

\* C2: version comparison is a total order on parsed versions: the sign of
\* compare(a, b) is the opposite of the sign of compare(b, a), compare(a, a)
\* is Equal, and a <= b and b <= c imply a <= c for every third version c.
C2_TotalOrder ==
    Compared =>
        /\ Sign(cmp) = 0 - Sign(pkg_compare_versions(pb, pa))
        /\ pkg_compare_versions(pa, pa) = 0
        /\ cmp <= 0 =>
              \A c \in Versions :
                  LET pc == parse_version(pkg_new, c)
                  IN pkg_compare_versions(pb, pc) <= 0
                        => pkg_compare_versions(pa, pc) <= 0

C2_Witness ==
    /\ Compared
    /\ cmp < 0
    /\ pa.epoch = pb.epoch
    /\ pa.version # pb.version
    /\ \E c \in Versions : pkg_compare_versions(pb, parse_version(pkg_new, c)) < 0

\* the case of C3: no revision against a revision, epoch and upstream equal
NoRevisionCase ==
    /\ Compared
    /\ pa.epoch = pb.epoch
    /\ pa.version = pb.version
    /\ pa.revision = Null
    /\ pb.revision # Null

\* C3 as claimed: a version with no revision is strictly Less than the same
\* version with any non-empty revision, the revision "0" included.
C3_Original == NoRevisionCase => cmp < 0

\* C3 as amended: against a revision that is only zeros the version with no
\* revision is Equal; against a revision that, after its leading zeros,
\* starts with '~' it is Greater; against any other revision it is Less.
C3_NoRevision ==
    NoRevisionCase =>
        LET c == At(pb.revision, SkipZeros(pb.revision, 1))
        IN Sign(cmp) = (IF c = NUL THEN 0 ELSE IF c = "~" THEN 1 ELSE -1)

C3_Witness ==
    /\ NoRevisionCase
    /\ va = <<"1", ".", "0">>
    /\ vb = <<"1", ".", "0", "-", "0">>
    /\ cmp = 0

\* C4: version_constraints_satisfied(d, p) is true exactly when d has no
\* constraint, or '<<' and p's version is Less than d's, or '<=' and Less or
\* Equal, or '=' and Equal, or '>=' and Greater or Equal, or '>>' and Greater.
C4_ConstraintTable ==
    vpc = "checked" =>
        sat = \/ dep.constraint = "NONE"
              \/ dep.constraint = "EARLIER" /\ cmp < 0
              \/ dep.constraint = "EARLIER_EQUAL" /\ cmp <= 0
              \/ dep.constraint = "EQUAL" /\ cmp = 0
              \/ dep.constraint = "LATER_EQUAL" /\ cmp >= 0
              \/ dep.constraint = "LATER" /\ cmp > 0

(***************************************************************************)
(* Claims about the resolver.                                              *)
(***************************************************************************)
RECURSIVE Sum(_, _)
Sum(f, n) == IF n = 0 THEN 0 ELSE f[n] + Sum(f, n - 1)

\* a normal compound takes a processing step, the entry of the call it makes
\* and the return of that call; a greedy compound takes those three for every
\* package its loops visit, and the step that ends it
CompoundSteps(d, cd) ==
    IF cd.type = "GREEDY_DEPEND" THEN 3 * Len(GreedyScouts(d, cd)) + 1 ELSE 3

\* the steps of a traversal in which no package is expanded twice: for each
\* package its entry, its compounds and its return
StepBound(d) ==
    Sum([q \in 1..Len(d) |->
           2 + Sum([i \in 1..Len(d[q].depends) |-> CompoundSteps(d, d[q].depends[i])],
                   Len(d[q].depends))],
        Len(d))

DependsOn(d, q, name) ==
    \E i \in 1..Len(d[q].depends) :
        \E j \in 1..Len(d[q].depends[i].possibilities) :
            d[q].depends[i].possibilities[j].pkg = name

\* the innermost call is at a point one of the steps starts from
CanStep ==
    /\ stack # <<>>
    /\ \/ Top.pc = "entry"
       \/ Top.pc = "loop" /\ Top.i >= 1
       \/ Top.pc = "wait_normal" /\ Top.satisfier \in 1..Len(db)
       \/ Top.pc = "wait_greedy" /\ Top.g \in 1..Len(GreedyScouts(db, compound_depend))

\* C5: on any database, cyclic ones included, a traversal terminates: it gets
\* past the cycle guard at most once for each abstract package, so it takes no
\* more steps than one expansion of every package takes, and as long as it
\* runs it has a next step.
C5_CycleTerminates ==
    /\ \A a \in AbstractNames : visits[a] <= 1
    /\ steps <= StepBound(db)
    /\ phase = "running" => CanStep

\* a traversal of the cycle S -> Q -> S, entered from P, is over, and S, whose
\* second visit returned at the guard, was expanded once
C5_Witness ==
    /\ phase = "done"
    /\ DependsOn(db, 1, "S") /\ DependsOn(db, 2, "Q") /\ DependsOn(db, 3, "S")
    /\ visits["S"] = 1 /\ visits["Q"] = 1
    /\ Len(result.to_install) >= 2

\* C6: a call changes nothing in the database, and a second call for the same
\* package, made with an empty to_install after the flags were cleared, gives
\* the to_install and the unresolved list of the first call.
C6_Idempotent ==
    /\ phase # "idle" => db = call.db
    /\ (phase = "done" /\ runs >= 2 /\ call.clean /\ call.pkg = first.pkg)
         => /\ result.to_install = first.to_install
            /\ result.unresolved = first.unresolved

C6_Witness ==
    /\ phase = "done" /\ runs = 2 /\ call.clean /\ call.pkg = first.pkg
    /\ \E i \in 1..Len(db[1].depends) : db[1].depends[i].type = "GREEDY_DEPEND"
    /\ result.to_install # <<>>
    /\ result.unresolved # <<>>

\* the version of pkg satisfies the atom, by the table of the constraints
RefSatisfies(pkg, atom) ==
    LET c == Sign(pkg_compare_versions(pkg, parse_version(pkg_new, atom.version)))
    IN \/ atom.constraint = "NONE"
       \/ atom.constraint = "EARLIER" /\ c < 0
       \/ atom.constraint = "EARLIER_EQUAL" /\ c <= 0
       \/ atom.constraint = "EQUAL" /\ c = 0
       \/ atom.constraint = "LATER_EQUAL" /\ c >= 0
       \/ atom.constraint = "LATER" /\ c > 0

\* a package that is or provides what the atom names
Provides(pkg, atom) == atom.pkg \in Range(pkg.provides)

InstalledSatisfier(d, atom) ==
    \E q \in 1..Len(d) :
        /\ Provides(d[q], atom)
        /\ d[q].state_status \in {"SS_INSTALLED", "SS_UNPACKED"}
        /\ RefSatisfies(d[q], atom)

\* C7: when some atom of a normal compound has an installed or unpacked
\* satisfier of a satisfying version, processing the compound only moves on to
\* the next compound: nothing is added to to_install or to unresolved and no
\* call is made, whatever the atoms before it have.
C7_InstalledSatisfies ==
    [][(/\ ProcessNormal
        /\ \E j \in 1..Len(compound_depend.possibilities) :
               InstalledSatisfier(db, compound_depend.possibilities[j]))
          => /\ vecs' = vecs
             /\ stack' = SetTop([Top EXCEPT !.i = @ + 1])]_vars

\* P depends on X | S, no package X exists and S is installed: ([], [])
C7_Witness ==
    /\ phase = "done" /\ runs = 1
    /\ db[1].depends = <<Cd("DEPEND", <<Atom("X"), Atom("S")>>)>>
    /\ db[2].state_status = "SS_INSTALLED"
    /\ result.to_install = <<>> /\ result.unresolved = <<>>

\* the operator of a constraint that is not strict (a strict one has two
\* spellings in the dependency language)
RefOp(c) ==
    CASE c = "EARLIER_EQUAL" -> "<="
      [] c = "EQUAL" -> "="
      [] c = "LATER_EQUAL" -> ">="

RefAtomText(atom) ==
    IF atom.constraint = "NONE" THEN atom.pkg
    ELSE atom.pkg \o " (" \o RefOp(atom.constraint) \o " " \o Text(atom.version) \o ")"

RECURSIVE RefPrintable(_)
RefPrintable(atoms) ==
    IF Len(atoms) = 1 THEN RefAtomText(atoms[1])
    ELSE RefAtomText(atoms[1]) \o " | " \o RefPrintable(Tail(atoms))

SamePackage(p, q) ==
    /\ p.name = q.name
    /\ pkg_compare_versions(p, q) = 0
    /\ p.architecture = q.architecture

\* C9: the to_install of a call that started with an empty to_install holds
\* no package twice.
C9_NoDuplicates ==
    phase = "done" =>
        \A i, j \in 1..Len(result.to_install) :
            i # j => ~SamePackage(db[result.to_install[i]], db[result.to_install[j]])

\* no package of the database is or provides what an atom of the compound names
NoCandidate(d, cd) ==
    \A j \in 1..Len(cd.possibilities) :
        \A q \in 1..Len(d) : ~Provides(d[q], cd.possibilities[j])

\* C10: after a call from clean flags, every Depend or PreDepend compound, of
\* the package or of a package in to_install, that no package of the database
\* can satisfy has its printable form in the unresolved list.
C10_NoFailureLost ==
    (phase = "done" /\ call.clean) =>
        \A q \in {call.pkg} \cup Range(result.to_install) :
            \A i \in 1..Len(db[q].depends) :
                (/\ db[q].depends[i].type \in {"DEPEND", "PREDEPEND"}
                 /\ NoCandidate(db, db[q].depends[i]))
                  => RefPrintable(db[q].depends[i].possibilities)
                         \in Range(result.unresolved)

(***************************************************************************)
(* pkg_depends.c: the parsers of the Provides, Replaces, Conflicts and     *)
(* Depends fields.  An abstract_pkg_t ** array is the sequence of its      *)
(* cells as seen from the pointer that is held: a cell holds the name of   *)
(* an abstract package, NullPtr, or Undef when it was never written.  What *)
(* the C standard leaves undefined is settled by u: u.fresh is what a cell *)
(* that was never written reads as, u.trap says whether an invalid access  *)
(* kills the process.                                                      *)
(***************************************************************************)
Outcomes == [fresh : {NullPtr, Undef}, trap : BOOLEAN]

abstract_pkg_vec_contains(vec, a) == \E i \in 1..Len(vec) : vec[i] = a

abstract_pkg_vec_insert(vec, a) == Append(vec, a)

\* realloc(block, n cells): the cells kept, the new ones never written
realloc(block, n, u) ==
    IF Len(block) >= n THEN SubSeq(block, 1, n)
    ELSE block \o [k \in 1..(n - Len(block)) |-> u.fresh]

\* block[i] = v for the C index i (from 0); a store past the end of the
\* block lands in the memory behind it
Store(block, i, v, u) ==
    IF i < Len(block) THEN [block EXCEPT ![i + 1] = v]
    ELSE Append(block \o [k \in 1..(i - Len(block)) |-> u.fresh], v)

\* what a loop "for (; *p; p++)" sees of block: the cells before the first
\* NULL
RECURSIVE ListOf(_)
ListOf(block) ==
    IF block = <<>> \/ Head(block) = NullPtr THEN <<>>
    ELSE <<Head(block)>> \o ListOf(Tail(block))

\* a parser state
St(p, a, f) == [pkg |-> p, ab |-> a, fault |-> f]

\* init_providelist(pkg, &count): the state, the pointer it returns (as the
\* offset into PKG_PROVIDES) and count
init_providelist(st) ==
    IF st.pkg.provides = NoBlob
    THEN [st |-> [st EXCEPT
                    !.pkg.provides = <<"P", NullPtr>>,
                    !.ab["P"].provided_by =
                        IF abstract_pkg_vec_contains(@, "P") THEN @
                        ELSE abstract_pkg_vec_insert(@, "P")],
          off |-> 0, count |-> 2]
    ELSE [st |-> st, off |-> Len(ListOf(st.pkg.provides)),
          count |-> 1 + Len(ListOf(st.pkg.provides))]

\* the loop of parse_providelist from the i-th item on: provides is the
\* array as seen from the pointer init_providelist returned
RECURSIVE ProvideLoop(_, _, _, _, _, _)
ProvideLoop(st, provides, count, items, i, u) ==
    IF i > Len(items)
    THEN [st EXCEPT !.pkg.provides = Store(provides, count - 1, NullPtr, u)]
    ELSE ProvideLoop(
           [st EXCEPT !.ab[items[i]].provided_by =
                         IF abstract_pkg_vec_contains(@, "P") THEN @
                         ELSE abstract_pkg_vec_insert(@, "P")],
           Store(realloc(provides, count + 1, u), count - 1, items[i], u),
           count + 1, items, i + 1, u)

\* parse_providelist(pkg, list): list holds the items.  When PKG_PROVIDES
\* is set already, init_providelist returns the address of its terminator,
\* which realloc never handed out
parse_providelist(st, items, u) ==
    LET r == init_providelist(st)
    IN IF r.off # 0 /\ u.trap
       THEN [st EXCEPT !.fault = "realloc(): invalid pointer"]
       ELSE ProvideLoop(r.st,
                        SubSeq(r.st.pkg.provides, r.off + 1, Len(r.st.pkg.provides)),
                        r.count, items, 1, u)

\* pkg_conflicts_abstract(pkg, conflictee), for a pkg whose PKG_CONFLICTS is
\* set
pkg_conflicts_abstract(pkg, conflictee) ==
    \E c \in 1..Len(pkg.conflicts) :
        \E j \in 1..Len(pkg.conflicts[c].possibilities) :
            pkg.conflicts[c].possibilities[j].pkg = conflictee

\* the loop of parse_replacelist from the i-th item on; pkg_conflicts_abstract
\* reads conflict->type through the NULL it got for a PKG_CONFLICTS that is
\* not set
RECURSIVE ReplaceLoop(_, _, _, _, _, _)
ReplaceLoop(st, replaces, count, items, i, u) ==
    IF i > Len(items)
    THEN [st EXCEPT !.pkg.replaces = Store(replaces, count - 1, NullPtr, u)]
    ELSE IF st.pkg.conflicts = NoBlob /\ u.trap
    THEN [st EXCEPT !.fault = "SIGSEGV"]
    ELSE ReplaceLoop(
           IF st.pkg.conflicts # NoBlob /\ pkg_conflicts_abstract(st.pkg, items[i])
           THEN [st EXCEPT !.ab[items[i]].replaced_by = abstract_pkg_vec_insert(@, "P")]
           ELSE st,
           Store(realloc(replaces, count + 1, u), count - 1, items[i], u),
           count + 2, items, i + 1, u)

parse_replacelist(st, items, u) ==
    ReplaceLoop([st EXCEPT !.ab["P"].provided_by = abstract_pkg_vec_insert(@, "P")],
                <<>>, 1, items, 1, u)

\* strncmp(vstr, lit, strlen(lit)) = 0
StartsWith(vstr, lit) == Len(vstr) >= Len(lit) /\ SubSeq(vstr, 1, Len(lit)) = lit

trim_xstrdup(s) == IF Trimmed(s) = Null THEN <<>> ELSE Trimmed(s)

\* the constraint parseDepends reads at the start of vstr, and how many
\* characters it takes
ConstraintOf(vstr) ==
    IF StartsWith(vstr, <<"<", "<">>) THEN [constraint |-> "EARLIER", len |-> 2]
    ELSE IF StartsWith(vstr, <<"<", "=">>) THEN [constraint |-> "EARLIER_EQUAL", len |-> 2]
    ELSE IF StartsWith(vstr, <<">", "=">>) THEN [constraint |-> "LATER_EQUAL", len |-> 2]
    ELSE IF StartsWith(vstr, <<">", ">">>) THEN [constraint |-> "LATER", len |-> 2]
    ELSE IF StartsWith(vstr, <<"=">>) THEN [constraint |-> "EQUAL", len |-> 1]
    ELSE IF StartsWith(vstr, <<"<">>) THEN [constraint |-> "EARLIER_EQUAL", len |-> 1]
    ELSE IF StartsWith(vstr, <<">">>) THEN [constraint |-> "LATER_EQUAL", len |-> 1]
    ELSE [constraint |-> "NONE", len |-> 0]

\* one alternative of parseDepends: text.name is the name, text.vstr what
\* stands between the parentheses (Null when there are none)
ParsePossibility(text) ==
    IF text.vstr = Null THEN Atom(text.name)
    ELSE AtomV(text.name, ConstraintOf(text.vstr).constraint,
               trim_xstrdup(SubSeq(text.vstr, ConstraintOf(text.vstr).len + 1,
                                   Len(text.vstr))))

\* parseDepends(compound_depend, depend_str, type): item holds the
\* alternatives strtok_r cuts at "|"
parseDepends(item, type) ==
    Cd(type, [j \in 1..Len(item) |-> ParsePossibility(item[j])])

\* strtok: the first position from i on that holds no delimiter
RECURSIVE SkipOver(_, _, _)
SkipOver(str, i, delim) ==
    IF i <= Len(str) /\ str[i] \in delim THEN SkipOver(str, i + 1, delim) ELSE i

\* strtok: the first position from i on that holds a delimiter or is the end
RECURSIVE ScanTo(_, _, _)
ScanTo(str, i, delim) ==
    IF i <= Len(str) /\ str[i] \notin delim THEN ScanTo(str, i + 1, delim) ELSE i

\* the token that starts at b: where it starts, and where the next call of
\* strtok resumes; Null when only delimiters were left
TokenAt(str, b, e) ==
    IF b > Len(str) THEN [tok |-> Null, at |-> b, next |-> b]
    ELSE [tok |-> SubSeq(str, b, e - 1), at |-> b,
          next |-> IF e > Len(str) THEN e ELSE e + 1]

\* strtok(str + i - 1, delim), and strtok(NULL, delim) after a call that
\* left off at i
strtok(str, i, delim) ==
    TokenAt(str, SkipOver(str, i, delim), ScanTo(str, SkipOver(str, i, delim), delim))

\* lines 1088-1089: rest && *rest == '*'
IsStar(rest) == rest.tok # Null /\ rest.tok[1] = "*"

\* lines 1050-1082: rest starts with '(': vstr = strtok(rest + 1, ")"), and
\* after it rest = strtok(NULL, " "); strncmp reads a NULL vstr
Constrained(depend, name, vstr) ==
    [ok |-> vstr.tok # Null, name |-> name.tok, vstr |-> vstr.tok,
     star |-> vstr.tok # Null /\ IsStar(strtok(depend, vstr.next, {" "}))]

\* lines 1084-1086: rest = strtok(rest, " ")
Unconstrained(depend, name, rest) ==
    [ok |-> TRUE, name |-> name.tok, vstr |-> Null,
     star |-> IsStar(strtok(depend, rest.at, {" "}))]

\* lines 1042-1050: name = strtok(depend, " "); rest = strtok(NULL, "\n")
NameAndRest(depend, name, rest) ==
    IF name.tok = Null THEN [ok |-> FALSE, name |-> Null, vstr |-> Null, star |-> FALSE]
    ELSE IF rest.tok # Null /\ rest.tok[1] = "("
    THEN Constrained(depend, name, strtok(depend, rest.at + 1, {")"}))
    ELSE Unconstrained(depend, name, rest)

NameOf(depend, name) == NameAndRest(depend, name, strtok(depend, name.next, {"\n"}))

\* one alternative of the loop of parseDepends, cut into its name, the text
\* between the parentheses and whether a '*' follows
Possibility(depend) == NameOf(depend, strtok(depend, 1, {" "}))

\* line 1041: the loop over strtok_r(depend_str, "|", &tok), from i on
RECURSIVE Possibilities(_, _)
PossibilitiesAfter(depend_str, depend) ==
    IF depend.tok = Null THEN <<>>
    ELSE <<Possibility(depend.tok)>> \o Possibilities(depend_str, depend.next)

Possibilities(depend_str, i) ==
    PossibilitiesAfter(depend_str, strtok(depend_str, i, {"|"}))

\* lines 1039, 1088-1093: the type is that of the field unless a '*' was seen
CompoundOf(item, type) ==
    IF \E j \in 1..Len(item) : ~item[j].ok THEN Died
    ELSE Returned(parseDepends(item,
                      IF \E j \in 1..Len(item) : item[j].star
                      THEN "GREEDY_DEPEND" ELSE type))

\* parseDepends(compound_depend, depend_str, type) on the characters of
\* depend_str
parseDependsText(depend_str, type) == CompoundOf(Possibilities(depend_str, 1), type)

\* parse_deplist(pkg, type, list): list holds the items strtok_r cuts at ","
parse_deplist(st, type, items) ==
    LET id == IF type = "CONFLICTS" THEN "conflicts" ELSE "depends"
    IN [st EXCEPT !.pkg[id] =
                     st.pkg[id] \o [k \in 1..Len(items) |-> parseDepends(items[k], type)]]

(***************************************************************************)
(* pkg_depends.c: the installed packages a package conflicts with.         *)
(***************************************************************************)
\* is_pkg_a_replaces(pkg_scout, pkg) from the i-th cell of PKG_REPLACES on:
\* "yes", "no", or "fault" when (*replaces)->name reads through a cell that
\* was never written and the access traps
RECURSIVE ReplacesScan(_, _, _, _)
ReplacesScan(scout_name, replaces, i, u) ==
    IF i > Len(replaces) \/ replaces[i] = NullPtr THEN "no"
    ELSE IF replaces[i] = Undef
    THEN (IF u.trap THEN "fault" ELSE ReplacesScan(scout_name, replaces, i + 1, u))
    ELSE IF scout_name = replaces[i] THEN "yes"
    ELSE ReplacesScan(scout_name, replaces, i + 1, u)

is_pkg_a_replaces(pkg_scout, pkg, u) ==
    IF pkg.replaces = NoBlob THEN "no"
    ELSE ReplacesScan(pkg_scout.name, pkg.replaces, 1, u)

\* pkg_replaces(pkg, replacee): the two loops compare pointers, so a cell
\* that was never written equals no abstract package; replacee is a package
\* of the hash table, whose Provides is held as the list of the names
pkg_replaces(pkg, replacee) ==
    \E r \in Range(ListOf(pkg.replaces)) : r \in Range(replacee.provides)

\* the (possible_satisfier, pkg_scout) pairs in the order the three loops of
\* pkg_hash_fetch_conflicts meet them; a pkg_scout is an index of w
ConflictScouts(w, conflicts) ==
    Flatten([c \in 1..Len(conflicts) |->
        Flatten([j \in 1..Len(conflicts[c].possibilities) |->
            [k \in 1..Len(ab_pkgs(w, conflicts[c].possibilities[j].pkg)) |->
                [possible_satisfier |-> conflicts[c].possibilities[j],
                 pkg_scout |-> ab_pkgs(w, conflicts[c].possibilities[j].pkg)[k]]]])])

\* lines 340-344 for one pkg_scout: is it an installed conflict?
InstalledConflict(w, pkg, possible_satisfier, pkg_scout, u) ==
    IF /\ \/ w[pkg_scout].state_status = "SS_INSTALLED"
          \/ w[pkg_scout].state_want = "SW_INSTALL"
       /\ version_constraints_satisfied(possible_satisfier, w[pkg_scout])
    THEN (IF is_pkg_a_replaces(w[pkg_scout], pkg, u) = "fault" THEN "fault"
          ELSE IF is_pkg_a_replaces(w[pkg_scout], pkg, u) = "no" THEN "yes"
          ELSE "no")
    ELSE "no"

RECURSIVE FetchConflictsLoop(_, _, _, _, _, _)
FetchConflictsLoop(w, pkg, scouts, i, installed_conflicts, u) ==
    IF i > Len(scouts) THEN Returned(installed_conflicts)
    ELSE IF InstalledConflict(w, pkg, scouts[i].possible_satisfier,
                              scouts[i].pkg_scout, u) = "fault"
    THEN Died
    ELSE FetchConflictsLoop(w, pkg, scouts, i + 1,
           IF /\ InstalledConflict(w, pkg, scouts[i].possible_satisfier,
                                   scouts[i].pkg_scout, u) = "yes"
              /\ ~is_pkg_in_pkg_vec(w, installed_conflicts, scouts[i].pkg_scout)
           THEN pkg_vec_insert(installed_conflicts, scouts[i].pkg_scout)
           ELSE installed_conflicts,
           u)

\* pkg_hash_fetch_conflicts(pkg): the vector of the installed conflicts as
\* indices of w, the empty sequence for NULL
pkg_hash_fetch_conflicts(w, pkg, u) ==
    IF pkg.conflicts = NoBlob THEN Returned(<<>>)
    ELSE FetchConflictsLoop(w, pkg, ConflictScouts(w, pkg.conflicts), 1, <<>>, u)

(***************************************************************************)
(* pkg.c: pkg_formatted_info, as far as the dependency fields go.  What is *)
(* printed is the sequence of the field lines; a line holds its items, an  *)
(* item of a dependency field the alternatives, an alternative the name    *)
(* and the text between the parentheses.                                   *)
(***************************************************************************)
\* the characters of what constraint_to_str returns
Chars(str) ==
    CASE str = "" -> <<>>
      [] str = "< " -> <<"<", " ">>
      [] str = "<= " -> <<"<", "=", " ">>
      [] str = "= " -> <<"=", " ">>
      [] str = ">= " -> <<">", "=", " ">>
      [] str = "> " -> <<">", " ">>

\* what pkg_depend_str and the Conflicts branch print for one alternative
PossibilityText(d) ==
    [name |-> d.pkg,
     vstr |-> IF d.version # Null
              THEN Chars(constraint_to_str(d.constraint)) \o d.version
              ELSE Null]

Line(field, items) == [field |-> field, items |-> items]

\* pkg_get_depends(pkg, type): the first compound of the type, as its
\* position in PKG_DEPENDS; 0 for NULL
pkg_get_depends(pkg, type) ==
    LET hits == {a \in 1..Len(pkg.depends) : pkg.depends[a].type = type}
    IN IF hits = {} THEN 0 ELSE CHOOSE a \in hits : \A b \in hits : a <= b

\* the loop "for (i = 0; dep && dep->type; i++, dep++)": the values of i at
\* which dep, which started at position start, is a compound of the type
RECURSIVE PrintedAt(_, _, _, _)
PrintedAt(depends, type, start, i) ==
    IF start + i > Len(depends) THEN <<>>
    ELSE (IF depends[start + i].type = type THEN <<i>> ELSE <<>>)
           \o PrintedAt(depends, type, start, i + 1)

\* what pkg_depend_str(pkg, i) prints: the compound at the C index i of
\* PKG_DEPENDS, alternative by alternative
DependText(pkg, i) ==
    [j \in 1..Len(pkg.depends[i + 1].possibilities) |->
       PossibilityText(pkg.depends[i + 1].possibilities[j])]

FormatDependsFrom(pkg, type, field, start) ==
    IF start = 0 THEN <<>>
    ELSE <<Line(field, [k \in 1..Len(PrintedAt(pkg.depends, type, start, 0)) |->
                          DependText(pkg, PrintedAt(pkg.depends, type, start, 0)[k])])>>

\* the Depends, Recommends and Suggests branches: dep walks PKG_DEPENDS from
\* the first compound of the type while i, which pkg_depend_str counts from
\* the start of PKG_DEPENDS, starts at 0
FormatDepends(pkg, type, field) ==
    FormatDependsFrom(pkg, type, field, pkg_get_depends(pkg, type))

\* the Conflicts branch: of every compound, possibilities[0]
FormatConflicts(pkg) ==
    IF pkg.conflicts = NoBlob THEN <<>>
    ELSE <<Line("Conflicts", [k \in 1..Len(pkg.conflicts) |->
                                <<PossibilityText(pkg.conflicts[k].possibilities[1])>>])>>

\* block[i] for the C index i; a read past the end of the block gives what
\* lies behind it
Cell(block, i, u) == IF i < Len(block) THEN block[i + 1] ELSE u.fresh

\* the names a loop over an abstract_pkg_t ** prints from the C index i on,
\* i growing by step; it ends at a NULL, and in the model at the first cell
\* that was never written
RECURSIVE NamesFrom(_, _, _, _)
NamesFrom(block, i, step, u) ==
    IF Cell(block, i, u) = NullPtr THEN <<>>
    ELSE IF Cell(block, i, u) = Undef THEN <<Undef>>
    ELSE <<Cell(block, i, u)>> \o NamesFrom(block, i + step, step, u)

\* the Provides branch: ab_pkg is advanced in the loop header and once more
\* in the loop body
FormatProvides(pkg, u) ==
    IF /\ pkg.provides # NoBlob
       /\ Cell(pkg.provides, 0, u) # NullPtr
       /\ Cell(pkg.provides, 1, u) # NullPtr
    THEN <<Line("Provides", NamesFrom(pkg.provides, 1, 2, u))>>
    ELSE <<>>

FormatReplaces(pkg, u) ==
    IF pkg.replaces # NoBlob /\ Cell(pkg.replaces, 0, u) # NullPtr
    THEN <<Line("Replaces", NamesFrom(pkg.replaces, 0, 1, u))>>
    ELSE <<>>

\* (*ab_pkg)->name was read through a cell that was never written
ReadsUndef(ls) ==
    \E k \in 1..Len(ls) : ls[k].field \in {"Provides", "Replaces"}
                          /\ Undef \in Range(ls[k].items)

FormattedLines(pkg, u) ==
    FormatDepends(pkg, "DEPEND", "Depends")
      \o FormatDepends(pkg, "RECOMMEND", "Recommends")
      \o FormatDepends(pkg, "SUGGEST", "Suggests")
      \o FormatProvides(pkg, u) \o FormatReplaces(pkg, u) \o FormatConflicts(pkg)

\* pkg_formatted_info(fp, pkg): the lines printed
pkg_formatted_info(pkg, u) ==
    IF u.trap /\ ReadsUndef(FormattedLines(pkg, u)) THEN Died
    ELSE Returned(FormattedLines(pkg, u))

(***************************************************************************)
(* pkg_parse.c: pkg_parse_line with the full mask, for the fields above.   *)
(***************************************************************************)
pkg_parse_line(st, line, u) ==
    CASE line.field = "Depends" -> parse_deplist(st, "DEPEND", line.items)
      [] line.field = "Recommends" -> parse_deplist(st, "RECOMMEND", line.items)
      [] line.field = "Suggests" -> parse_deplist(st, "SUGGEST", line.items)
      [] line.field = "Conflicts" -> parse_deplist(st, "CONFLICTS", line.items)
      [] line.field = "Provides" -> parse_providelist(st, line.items, u)
      [] line.field = "Replaces" -> parse_replacelist(st, line.items, u)

\* pkg_parse_from_stream: the lines of a stanza from the i-th on; a process
\* that died parses no more
RECURSIVE ParseLines(_, _, _, _)
ParseLines(st, ls, i, u) ==
    IF i > Len(ls) \/ st.fault # "none" THEN st
    ELSE ParseLines(pkg_parse_line(st, ls[i], u), ls, i + 1, u)

(***************************************************************************)
(* The stanza of P as a state machine: its field lines are parsed one by   *)
(* one in any order, then the installed conflicts of P are fetched, P is   *)
(* printed, and what was printed is parsed as the stanza of a fresh        *)
(* process.                                                                *)
(***************************************************************************)
MaxLines == 3

T(name) == [name |-> name, vstr |-> Null]

Tv(name, vstr) == [name |-> name, vstr |-> vstr]

FieldLines ==
    {Line("Provides", items) : items \in {<<"V">>, <<"V", "X">>}}
      \cup {Line("Replaces", items) : items \in {<<"S">>, <<"V">>, <<"S", "Q">>}}
      \cup {Line("Conflicts", items) :
              items \in {<< <<T("S")>> >>, << <<T("V")>> >>,
                         << <<T("S")>>, <<T("Q")>> >>,
                         << <<T("S")>>, <<Tv("S", <<">", "=", " ", "1", ".", "0">>)>> >>,
                         << <<Tv("S", <<"<", "<", " ", "2", ".", "0">>)>> >>,
                         << <<Tv("S", <<">", "=", "2", ".", "0">>)>> >>}}
      \cup {Line("Depends", items) :
              items \in {<< <<T("S"), T("Q")>> >>,
                         << <<Tv("S", <<">", ">", " ", "1", ".", "0">>)>> >>}}

\* the hash table before the stanza of P: S 1.0 and Q 1.0, which both
\* provide V
World(ss, qs) ==
    <<Pkg("S", V10, "arm", 10, ss, <<>>, <<"V">>),
      Pkg("Q", V10, "all", 1, qs, <<>>, <<"V">>)>>

InitPkg ==
    /\ \E ss \in SStates, qs \in QStates : world = World(ss, qs)
    /\ the_pkg = NoPkg
    /\ ab = [a \in AbstractNames |->
               [provided_by |-> provided_by(world, a), replaced_by |-> <<>>]]
    /\ fault = "none"
    /\ lines = <<>>
    /\ confl = NotCalled
    /\ out = NotCalled
    /\ back = NotCalled
    /\ VerIdle
    /\ ResIdle
    /\ MrgIdle
    /\ TxtIdle

Alive == fault = "none" /\ confl = NotCalled /\ out = NotCalled

\* pkg_parse_line on one more field line of the stanza of P
ParseLine(line, u) ==
    /\ Alive
    /\ Len(lines) < MaxLines
    /\ the_pkg' = pkg_parse_line(St(the_pkg, ab, fault), line, u).pkg
    /\ ab' = pkg_parse_line(St(the_pkg, ab, fault), line, u).ab
    /\ fault' = pkg_parse_line(St(the_pkg, ab, fault), line, u).fault
    /\ lines' = Append(lines, line)
    /\ UNCHANGED <<world, confl, out, back>>

FetchConflicts(u) ==
    /\ Alive
    /\ lines # <<>>
    /\ confl' = pkg_hash_fetch_conflicts(world, the_pkg, u)
    /\ fault' = IF confl'.rc = "SIGSEGV" THEN "SIGSEGV" ELSE fault
    /\ UNCHANGED <<world, the_pkg, ab, lines, out, back>>

Format(u) ==
    /\ fault = "none"
    /\ lines # <<>>
    /\ out = NotCalled
    /\ out' = pkg_formatted_info(the_pkg, u)
    /\ fault' = IF out'.rc = "SIGSEGV" THEN "SIGSEGV" ELSE fault
    /\ UNCHANGED <<world, the_pkg, ab, lines, confl, back>>

\* what was printed is parsed by a process that starts with the hash table
\* of the world alone
Parse(u) ==
    /\ fault = "none"
    /\ out.rc = "returned"
    /\ ~ReadsUndef(out.val)
    /\ back = NotCalled
    /\ back' = Returned(ParseLines(St(NoPkg, NoAbstracts, "none"), out.val, 1, u))
    /\ UNCHANGED <<world, the_pkg, ab, fault, lines, confl, out>>

NextPkg ==
    \/ \E line \in FieldLines, u \in Outcomes :
          ParseLine(line, u) /\ UNCHANGED <<verVars, resVars, mrgVars, txtVars>>
    \/ \E u \in Outcomes : FetchConflicts(u) /\ UNCHANGED <<verVars, resVars, mrgVars, txtVars>>
    \/ \E u \in Outcomes : Format(u) /\ UNCHANGED <<verVars, resVars, mrgVars, txtVars>>
    \/ \E u \in Outcomes : Parse(u) /\ UNCHANGED <<verVars, resVars, mrgVars, txtVars>>

SpecPkg == InitPkg /\ [][NextPkg]_vars

(***************************************************************************)
(* Claims about the stanza parsers, the conflicts and the formatter.       *)
(***************************************************************************)
\* q is replaced by pkg: some abstract in the Replaces of pkg is in the
\* Provides of q
RefReplaced(q, pkg) ==
    \E r \in Range(ListOf(pkg.replaces)) : r \in Range(q.provides)

\* the installed conflicts of pkg by the words of the specification
RefConflicts(w, pkg) ==
    {q \in 1..Len(w) :
        /\ w[q].state_status = "SS_INSTALLED" \/ w[q].state_want = "SW_INSTALL"
        /\ \E c \in 1..Len(pkg.conflicts) :
             \E j \in 1..Len(pkg.conflicts[c].possibilities) :
                /\ pkg.conflicts[c].possibilities[j].pkg = w[q].name
                /\ RefSatisfies(w[q], pkg.conflicts[c].possibilities[j])
        /\ ~RefReplaced(w[q], pkg)}

\* C11: pkg_hash_fetch_conflicts(P) returns exactly the packages that are
\* installed or wanted installed, match the version constraint of a conflict
\* atom of P and have no name of their Provides in the Replaces of P, each
\* once.
C11_FetchConflicts ==
    confl.rc = "returned" =>
        /\ Range(confl.val) = RefConflicts(world, the_pkg)
        /\ Len(confl.val) = Cardinality(RefConflicts(world, the_pkg))

\* the names a package provides besides its own
ProvidedNames(pkg) ==
    IF ListOf(pkg.provides) = <<>> THEN <<>> ELSE Tail(ListOf(pkg.provides))

\* the fields of a record that pkg_formatted_info prints, as far as the
\* model goes: the lists as a reader sees them
EmittedFields(pkg) ==
    [depends |-> SelectSeq(pkg.depends,
                           LAMBDA cd : cd.type \in {"DEPEND", "RECOMMEND", "SUGGEST"}),
     provides |-> ProvidedNames(pkg),
     replaces |-> ListOf(pkg.replaces),
     conflicts |-> pkg.conflicts]

\* C12: parsing what pkg_formatted_info printed for a parsed record ends
\* normally and gives a record equal to it on the Depends, Recommends,
\* Suggests, Provides, Replaces and Conflicts fields.
C12_RoundTrip ==
    back.rc = "returned" =>
        /\ back.val.fault = "none"
        /\ EmittedFields(back.val.pkg) = EmittedFields(the_pkg)

\* the items of the lines of a field parsed so far, in their order
ItemsOf(field) ==
    Flatten([k \in 1..Len(lines) |->
               IF lines[k].field = field THEN lines[k].items ELSE <<>>])

\* the line parsed last is a line of the field
JustParsed(field) == lines # <<>> /\ lines[Len(lines)].field = field

\* C13: after parse_providelist for a Provides line of P, however many
\* Provides lines and other lines came before, the Provides of P is its own
\* abstract followed by the provided names in their order, P is in its own
\* provided_by, and P is in the provided_by of every name of the line.
C13_ProvidesList ==
    JustParsed("Provides") =>
        /\ fault = "none"
        /\ ListOf(the_pkg.provides) = <<"P">> \o ItemsOf("Provides")
        /\ abstract_pkg_vec_contains(ab["P"].provided_by, "P")
        /\ \A q \in Range(lines[Len(lines)].items) :
              abstract_pkg_vec_contains(ab[q].provided_by, "P")

\* the abstract packages named by a Conflicts atom parsed so far
ConflictNames ==
    {ItemsOf("Conflicts")[k][j].name :
        k \in 1..Len(ItemsOf("Conflicts")), j \in {1}}

\* C14: whatever the order of the Replaces and Conflicts lines of the stanza
\* of P, every Q that P replaces and conflicts with has P in its replaced_by;
\* and a Replaces line of a stanza without a Conflicts line is parsed
\* normally and adds P to no replaced_by.
C14_ReplaceSymmetry ==
    /\ fault = "none" =>
          \A q \in Range(ItemsOf("Replaces")) \cap ConflictNames :
              abstract_pkg_vec_contains(ab[q].replaced_by, "P")
    /\ JustParsed("Replaces") /\ ItemsOf("Conflicts") = <<>> =>
          /\ fault = "none"
          /\ \A a \in AbstractNames : ~abstract_pkg_vec_contains(ab[a].replaced_by, "P")

\* C20: after parse_replacelist for a Replaces line q1..qn of P that ended
\* normally, the Replaces of P is exactly q1..qn in this order, so
\* pkg_replaces(P, other) holds exactly when some qi is in the Provides of
\* other.
C20_ReplacesList ==
    JustParsed("Replaces") /\ fault = "none" =>
        /\ ListOf(the_pkg.replaces) = lines[Len(lines)].items
        /\ \A o \in 1..Len(world) :
              pkg_replaces(the_pkg, world[o])
                <=> \E q \in Range(lines[Len(lines)].items) :
                       q \in Range(world[o].provides)

(***************************************************************************)
(* pkg.c: pkg_merge.  A record holds the members of pkg_t and its blobs: a *)
(* string blob that is not set is Null, an int blob that is not set reads  *)
(* 0, a pointer that is not set is NullPtr or, for an array, NoBlob.       *)
(* PKG_CONFFILES is set by the parser to a pointer to a list on the heap   *)
(* and read through pkg_get_ptr; held is what the blob holds: "nothing",   *)
(* "pointer" or "list head" (the bytes of a conffile_list_t).              *)
(***************************************************************************)
NoConffiles == [held |-> "nothing", elts |-> <<>>]

\* the steps of pkg_merge in their order
MergeSteps ==
    << [kind |-> "member", field |-> "auto_installed", absent |-> 0],
       [kind |-> "member", field |-> "src", absent |-> NullPtr],
       [kind |-> "member", field |-> "dest", absent |-> NullPtr],
       [kind |-> "string", field |-> "architecture"],
       [kind |-> "int", field |-> "arch_priority"],
       [kind |-> "string", field |-> "section"],
       [kind |-> "string", field |-> "maintainer"],
       [kind |-> "string", field |-> "description"],
       [kind |-> "ptr", field |-> "depends"],
       [kind |-> "provides", field |-> "provides"],
       [kind |-> "ptr", field |-> "conflicts"],
       [kind |-> "ptr", field |-> "replaces"],
       [kind |-> "string", field |-> "filename"],
       [kind |-> "string", field |-> "local_filename"],
       [kind |-> "string", field |-> "tmp_unpack_dir"],
       [kind |-> "string", field |-> "md5sum"],
       [kind |-> "string", field |-> "sha256sum"],
       [kind |-> "int", field |-> "size"],
       [kind |-> "int", field |-> "installed_size"],
       [kind |-> "string", field |-> "priority"],
       [kind |-> "string", field |-> "source"],
       [kind |-> "conffiles", field |-> "conffiles"],
       [kind |-> "installed_files", field |-> "installed_files"],
       [kind |-> "member", field |-> "essential", absent |-> 0] >>

\* one step of pkg_merge on m = [o |-> oldpkg, n |-> newpkg]
MergeStep(m, step) ==
    CASE step.kind = "member" ->
           IF m.o[step.field] = step.absent
           THEN [m EXCEPT !.o[step.field] = m.n[step.field]] ELSE m
      [] step.kind = "string" ->
           IF m.o[step.field] = Null
           THEN [m EXCEPT !.o = pkg_set_string(m.o, step.field, m.n[step.field])]
           ELSE m
      [] step.kind = "int" ->
           IF m.o[step.field] = 0
           THEN [m EXCEPT !.o[step.field] = m.n[step.field]] ELSE m
      [] step.kind = "ptr" ->
           IF m.o[step.field] = NoBlob
           THEN [m EXCEPT !.o[step.field] = m.n[step.field],
                          !.n[step.field] = NoBlob]
           ELSE m
      [] step.kind = "provides" ->
           IF \/ m.o.provides = NoBlob
              \/ m.o.provides[1] = NullPtr
              \/ m.o.provides[2] = NullPtr
           THEN [m EXCEPT !.o.provides = m.n.provides, !.n.provides = NoBlob]
           ELSE m
      [] step.kind = "conffiles" ->
           \* the list of newpkg is spliced onto head, a variable of
           \* pkg_merge, and the bytes of head are copied into the blob
           IF m.o.conffiles.held = "nothing" /\ m.n.conffiles.held = "pointer"
           THEN [m EXCEPT !.o.conffiles = [held |-> "list head",
                                           elts |-> m.n.conffiles.elts],
                          !.n.conffiles.elts = <<>>]
           ELSE m
      [] step.kind = "installed_files" ->
           IF m.o.installed_files = NullPtr
           THEN [m EXCEPT !.o.installed_files = m.n.installed_files,
                          !.o.installed_files_ref_cnt = m.n.installed_files_ref_cnt,
                          !.n.installed_files = NullPtr]
           ELSE m

RECURSIVE MergeFrom(_, _)
MergeFrom(m, i) ==
    IF i > Len(MergeSteps) THEN m ELSE MergeFrom(MergeStep(m, MergeSteps[i]), i + 1)

\* pkg_merge(oldpkg, newpkg); same: the two pointers are equal
pkg_merge(o, n, same) == IF same THEN [o |-> o, n |-> n] ELSE MergeFrom([o |-> o, n |-> n], 1)

\* what a reader gets from pkg_get_ptr(pkg, PKG_CONFFILES) and the list
\* functions: the entries of the list the pointer leads to.  The first bytes
\* of a list head are its next pointer, and the entries pkg_merge spliced
\* link back to the head that was a variable of pkg_merge, so what is read
\* through them is not an entry that was ever written.
conffiles_read(pkg) ==
    IF pkg.conffiles.held = "list head" THEN <<[name |-> Undef, value |-> Undef]>>
    ELSE pkg.conffiles.elts

(***************************************************************************)
(* pkg_merge as a state machine: two records of the package P, one from    *)
(* the status file and one from a feed, each with some of its fields set,  *)
(* are merged; or a record is merged with itself.                          *)
(***************************************************************************)
StringFields == {MergeSteps[k].field : k \in {i \in 1..Len(MergeSteps) : MergeSteps[i].kind = "string"}}

IntFields == {MergeSteps[k].field : k \in {i \in 1..Len(MergeSteps) : MergeSteps[i].kind = "int"}}

FlagFields == {"auto_installed", "essential"}

ArrayFields == {"depends", "provides", "conflicts", "replaces"}

AllFields == {MergeSteps[k].field : k \in 1..Len(MergeSteps)}

\* the record of P that has the fields of set set, each with a value that
\* tells the record it comes from
MPkg(tag, n, want, set) ==
    [f \in AllFields |->
        IF f \in StringFields THEN (IF f \in set THEN <<f, tag>> ELSE Null)
        ELSE IF f \in IntFields THEN (IF f \in set THEN n ELSE 0)
        ELSE IF f \in FlagFields THEN (IF f \in set THEN 1 ELSE 0)
        ELSE IF f = "provides"
        THEN (IF f \in set THEN <<"P", "V" \o tag, NullPtr>> ELSE <<"P", NullPtr>>)
        ELSE IF f = "replaces" THEN (IF f \in set THEN <<"S" \o tag, NullPtr>> ELSE NoBlob)
        ELSE IF f \in ArrayFields
        THEN (IF f \in set THEN <<Cd("DEPEND", <<Atom("S" \o tag)>>)>> ELSE NoBlob)
        ELSE IF f = "conffiles"
        THEN (IF f \in set
              THEN [held |-> "pointer",
                    elts |-> <<[name |-> "/etc/" \o tag, value |-> "md5" \o tag]>>]
              ELSE NoConffiles)
        ELSE (IF f \in set THEN f \o tag ELSE NullPtr)]
      @@ [name |-> "P", version |-> V10, state_want |-> want,
          state_flag |-> "SF_" \o tag, state_status |-> "SS_" \o tag,
          installed_files_ref_cnt |-> IF "installed_files" \in set THEN n ELSE 0]

FieldSets ==
    {{}, AllFields, StringFields, AllFields \ StringFields,
     {"conffiles", "depends", "size", "src", "essential"},
     {"provides", "replaces", "conflicts", "installed_files", "installed_size",
      "dest", "auto_installed", "arch_priority"},
     {"architecture", "conffiles", "provides"}}

InitMrg ==
    /\ oldpkg \in {MPkg("o", 1, "SW_INSTALL", set) : set \in FieldSets}
    /\ newpkg \in {MPkg("n", 2, "SW_UNKNOWN", set) : set \in FieldSets}
    /\ old0 = oldpkg
    /\ new0 = newpkg
    /\ mpc = "parsed"
    /\ VerIdle
    /\ ResIdle
    /\ PkgIdle
    /\ TxtIdle

Merge ==
    /\ mpc = "parsed"
    /\ oldpkg' = pkg_merge(oldpkg, newpkg, FALSE).o
    /\ newpkg' = pkg_merge(oldpkg, newpkg, FALSE).n
    /\ mpc' = "merged"
    /\ UNCHANGED <<old0, new0>>

MergeSelf ==
    /\ mpc = "parsed"
    /\ oldpkg' = pkg_merge(oldpkg, oldpkg, TRUE).o
    /\ mpc' = "merged with itself"
    /\ UNCHANGED <<newpkg, old0, new0>>

NextMrg ==
    \/ Merge /\ UNCHANGED <<verVars, resVars, pkgVars, txtVars>>
    \/ MergeSelf /\ UNCHANGED <<verVars, resVars, pkgVars, txtVars>>

SpecMrg == InitMrg /\ [][NextMrg]_vars

\* the fields the merge rule is claimed for
ClaimedFields == AllFields \ {"provides", "tmp_unpack_dir"}

FrameFields == {"name", "version", "state_want", "state_flag", "state_status"}

\* the value of a field as its readers get it
FieldValue(pkg, f) == IF f = "conffiles" THEN conffiles_read(pkg) ELSE pkg[f]

\* the field is present: not null, not zero
FieldPresent(pkg, f) ==
    IF f \in StringFields THEN pkg[f] # Null
    ELSE IF f \in IntFields \cup FlagFields THEN pkg[f] # 0
    ELSE IF f \in ArrayFields THEN pkg[f] # NoBlob
    ELSE IF f = "conffiles" THEN pkg.conffiles.held # "nothing"
    ELSE pkg[f] # NullPtr

MergeRule(fields) ==
    \A f \in fields :
        FieldValue(oldpkg, f) = IF FieldPresent(old0, f) THEN FieldValue(old0, f)
                                ELSE FieldValue(new0, f)

\* C15: after pkg_merge(old, new) every merged field of old has the value it
\* had before when that was present and the value of new otherwise, the
\* name, version, state_want, state_flag and state_status of old are what
\* they were, and pkg_merge(old, old) changes nothing.
C15_MergeFieldwise ==
    /\ mpc = "merged" =>
          /\ MergeRule(ClaimedFields)
          /\ \A f \in FrameFields : oldpkg[f] = old0[f]
    /\ mpc = "merged with itself" => oldpkg = old0

\* the same for all the fields but the conffiles
C15_ButConffiles ==
    /\ mpc = "merged" =>
          /\ MergeRule(ClaimedFields \ {"conffiles"})
          /\ \A f \in FrameFields : oldpkg[f] = old0[f]
    /\ mpc = "merged with itself" => oldpkg = old0

(***************************************************************************)
(* Claims about the order in which the resolver tries compounds and atoms, *)
(* the veto of the user, Suggest compounds and Greedy compounds.           *)
(***************************************************************************)
\* a step in which a normal compound makes its recursive call
MakesCall == ProcessNormal /\ Len(stack') = Len(stack) + 1

\* the package that call is made for
Chosen == stack'[Len(stack)].satisfier

\* package q of the database is or provides what the atom names, in a
\* version the atom accepts
RefCandidate(d, q, atom) == Provides(d[q], atom) /\ RefSatisfies(d[q], atom)

HasCandidate(d, atom) == \E q \in 1..Len(d) : RefCandidate(d, q, atom)

\* the frames that stay on the stack stay at their compound or move to the
\* next one, and a new frame starts at its first compound
CompoundsInOrder ==
    \A k \in 1..Len(stack') :
        IF k <= Len(stack)
        THEN /\ stack'[k].pkg = stack[k].pkg
             /\ stack'[k].i \in {stack[k].i, stack[k].i + 1}
        ELSE stack'[k].i = 1

\* the package chosen satisfies the lowest-indexed atom that has a candidate
FirstSatisfiable(d, cd, q) ==
    \E j \in 1..Len(cd.possibilities) :
        /\ RefCandidate(d, q, cd.possibilities[j])
        /\ \A j2 \in 1..(j - 1) : ~HasCandidate(d, cd.possibilities[j2])

\* C16, as stated: the package chosen to satisfy a normal compound is a
\* satisfier of the lowest-indexed atom that has any satisfying candidate, and
\* the compounds of a package are processed in the order of its list.
C16_Original ==
    [][/\ MakesCall => FirstSatisfiable(db, compound_depend, Chosen)
       /\ ResStep => CompoundsInOrder]_vars

BestAny(d, atom) ==
    pkg_hash_fetch_best_installation_candidate(d, atom.pkg, "any", atom)

\* the user does not want the package: Deinstall or Purge
RefUnwanted(d, q) == d[q].state_want \in {"SW_DEINSTALL", "SW_PURGE"}

\* the any-candidate pass skips the atom: it has no candidate, or its best
\* candidate is unwanted and the compound is a Recommend or a Suggest
RefSkipped(d, cd, best) ==
    \/ best = 0
    \/ cd.type \in {"RECOMMEND", "SUGGEST"} /\ RefUnwanted(d, best)

\* q is the best candidate of the lowest-indexed atom that is not skipped
FirstKept(d, cd, q) ==
    \E j \in 1..Len(cd.possibilities) :
        /\ q = BestAny(d, cd.possibilities[j])
        /\ ~RefSkipped(d, cd, q)
        /\ \A j2 \in 1..(j - 1) :
               RefSkipped(d, cd, BestAny(d, cd.possibilities[j2]))

\* C16, amended: the package a normal compound recurses into is chosen only
\* when no atom has an installed satisfier, and it is the best candidate of the
\* lowest-indexed atom that has a candidate which, for a Recommend, the user has
\* not vetoed; the compounds of a package are processed in the order of its
\* list.
C16_FirstKeptAtomWins ==
    [][/\ MakesCall =>
            /\ \A j \in 1..Len(compound_depend.possibilities) :
                   ~InstalledSatisfier(db, compound_depend.possibilities[j])
            /\ FirstKept(db, compound_depend, Chosen)
            /\ RefCandidate(db, Chosen, compound_depend.possibilities[
                   CHOOSE j \in 1..Len(compound_depend.possibilities) :
                       Chosen = BestAny(db, compound_depend.possibilities[j])])
       /\ ResStep => CompoundsInOrder]_vars

\* P recommends S | Q, the user wants S deinstalled, the call is made for Q
C16_Witness ==
    /\ phase = "running" /\ Len(stack) = 2
    /\ stack[1].pc = "wait_normal"
    /\ db[1].depends[stack[1].i] = Cd("RECOMMEND", <<Atom("S"), Atom("Q")>>)
    /\ db[2].state_want = "SW_DEINSTALL"
    /\ stack[1].satisfier = 3
    /\ stack[2].pkg = 3

\* some atom of the compound has an installed or unpacked satisfier
RefFound(d, cd) ==
    \E j \in 1..Len(cd.possibilities) : InstalledSatisfier(d, cd.possibilities[j])

\* the call the any-candidate pass has to make: for the package q that is the
\* best candidate of the first atom not skipped, unless q is the package being
\* resolved or is in to_install already
RefCallFor(d, cd, q) ==
    /\ cd.type # "SUGGEST"
    /\ ~RefFound(d, cd)
    /\ FirstKept(d, cd, q)
    /\ q # Top.pkg
    /\ ~is_pkg_in_pkg_vec(d, vecs[Top.vec], q)

\* C17: for a Recommend or Suggest compound an atom whose best candidate has
\* state_want Deinstall or Purge is skipped and the next atom is tried; no call
\* is made for such a candidate, it is not inserted into to_install, and the
\* compound adds nothing to unresolved.  For a Depend or PreDepend compound the
\* first atom that has a candidate is taken whatever the candidate's
\* state_want.
C17_UserVeto ==
    [][/\ ProcessNormal =>
            /\ vecs' = vecs
            /\ \A q \in 1..Len(db) :
                   RefCallFor(db, compound_depend, q) => MakesCall /\ Chosen = q
            /\ compound_depend.type \in {"RECOMMEND", "SUGGEST"} =>
                   /\ MakesCall => ~RefUnwanted(db, Chosen)
                   /\ stack'[Len(stack)].the_lost = Top.the_lost
       /\ (/\ NormalReturn
           /\ compound_depend.type \in {"RECOMMEND", "SUGGEST"}) =>
               /\ ~RefUnwanted(db, Top.satisfier)
               /\ Range(vecs'[Top.vec]) \subseteq Range(vecs[Top.vec]) \cup {Top.satisfier}
               /\ stack'[Len(stack)].the_lost = merge_unresolved(Top.the_lost, ret.unresolved)]_vars

\* P recommends S | Q and the user wants S purged: ([Q], [])
C17_Witness ==
    /\ phase = "done" /\ runs = 1
    /\ db[2].state_want = "SW_PURGE"
    /\ db[1].depends = <<Cd("RECOMMEND", <<Atom("S"), Atom("Q")>>)>>
    /\ db[3].depends = <<>>
    /\ result.to_install = <<3>> /\ result.unresolved = <<>>

\* P depends on S | Q and the user wants S purged: S is taken all the same
C17_WitnessDepend ==
    /\ phase = "done" /\ runs = 1
    /\ db[2].state_want = "SW_PURGE"
    /\ db[1].depends = <<Cd("DEPEND", <<Atom("S"), Atom("Q")>>)>>
    /\ result.to_install = <<2>>

\* C18: processing a Suggest compound only moves on to the next compound:
\* whether or not a candidate is found, to_install and unresolved are
\* unchanged, no call is made for the candidate and no abstract package is
\* marked dependencies_checked.
C18_SuggestDoesNothing ==
    [][(ProcessNormal /\ compound_depend.type = "SUGGEST")
          => /\ vecs' = vecs
             /\ checked' = checked
             /\ db' = db
             /\ stack' = SetTop([Top EXCEPT !.i = @ + 1])]_vars

\* P suggests S, which is not installed and which nobody vetoed: ([], []),
\* and S has not been visited
C18_Witness ==
    /\ phase = "done" /\ runs = 1
    /\ db[1].depends = <<Cd("SUGGEST", <<Atom("S")>>)>>
    /\ db[2].state_want = "SW_UNKNOWN" /\ db[2].state_status = "SS_NOT_INSTALLED"
    /\ PassB(db, db[1].depends[1], 1) = 2
    /\ result.to_install = <<>> /\ result.unresolved = <<>>
    /\ ~checked["S"]

\* package q is a concrete package of a provider of some atom of the compound
RefGreedyConcrete(d, cd, q) ==
    \E j \in 1..Len(cd.possibilities) : Provides(d[q], cd.possibilities[j])

\* not wanted installed, abstract package not visited, not in to_install
RefGreedyEligible(d, chk, vec, q) ==
    /\ d[q].state_want # "SW_INSTALL"
    /\ ~chk[d[q].name]
    /\ ~is_pkg_in_pkg_vec(d, vec, q)

\* the recursion returned no unresolved names and every package of the scratch
\* list is wanted installed
RefGreedyVerdict(d, tmp_vec, newstuff) ==
    /\ newstuff = <<>>
    /\ \A m \in 1..Len(tmp_vec) : d[tmp_vec[m]].state_want = "SW_INSTALL"

\* the to_install lists after the call made for s has returned
RefGreedyLists(s, verdict) ==
    [Pop(vecs) EXCEPT ![Top.vec] = IF verdict THEN Append(@, s) ELSE @]

\* a call made by a greedy compound: for an eligible concrete package of a
\* provider of an atom, with a fresh scratch list
RefGreedyCall(scouts, callee) ==
    /\ callee.pkg = scouts[stack'[Len(stack)].g]
    /\ RefGreedyConcrete(db, compound_depend, callee.pkg)
    /\ RefGreedyEligible(db, checked, vecs[Top.vec], callee.pkg)
    /\ vecs' = Append(vecs, <<>>)
    /\ callee.vec = Len(vecs')

\* C19: a greedy compound recurses, with a fresh scratch list, on the concrete
\* packages of the providers of its atoms that are not wanted installed, not
\* visited and not in to_install; such a package s is added to to_install if
\* and only if the recursion returns no unresolved names and every package of
\* the scratch list has state_want Install; the packages of the scratch list
\* are not added to the caller's to_install, and the compound adds nothing to
\* unresolved.
C19_Greedy ==
    [][/\ ProcessGreedy =>
            /\ stack'[Len(stack)].the_lost = Top.the_lost
            /\ IF Len(stack') = Len(stack) + 1
               THEN RefGreedyCall(GreedyScouts(db, compound_depend), stack'[Len(stack')])
               ELSE /\ vecs' = vecs
                    /\ stack' = SetTop([Top EXCEPT !.i = @ + 1, !.g = 1])
                    /\ \A q \in 1..Len(db) :
                           ~(/\ RefGreedyConcrete(db, compound_depend, q)
                             /\ RefGreedyEligible(db, checked, vecs[Top.vec], q))
       /\ GreedyReturn =>
            /\ vecs' = RefGreedyLists(GreedyScouts(db, compound_depend)[Top.g],
                           RefGreedyVerdict(db, vecs[Len(vecs)], ret.unresolved))
            /\ Top.vec < Len(vecs)
            /\ stack'[Len(stack)].the_lost = Top.the_lost
            /\ stack'[Len(stack)].i = Top.i
            /\ Len(stack') = Len(stack)]_vars

\* P has a greedy dependency on S, S depends on Q and Q is wanted installed but
\* is not installed: the scratch list is [Q] and S is added, Q is not
C19_Witness ==
    /\ phase = "done" /\ runs = 1
    /\ db[1].depends = <<Cd("GREEDY_DEPEND", <<Atom("S")>>)>>
    /\ db[2].depends = <<Cd("DEPEND", <<Atom("Q")>>)>>
    /\ db[2].state_want = "SW_UNKNOWN"
    /\ db[3].state_want = "SW_INSTALL" /\ db[3].state_status = "SS_NOT_INSTALLED"
    /\ result.to_install = <<2>> /\ result.unresolved = <<>>

(***************************************************************************)
(* parseDepends as a state machine: one item of a dependency field is      *)
(* written out, alternative by alternative, and parsed.                    *)
(***************************************************************************)
\* the most spaces between a name and its parenthesis
MaxGap == 2

\* the most alternatives of an item
MaxAlternatives == 2

Spaces(n) == [k \in 1..n |-> " "]

Operators ==
    {<<"<", "<">>, <<"<", "=">>, <<"=">>, <<">", "=">>, <<">", ">">>, <<"<">>, <<">">>}

\* an alternative as it is written: a name, gap spaces, and between the
\* parentheses the operator, pad spaces and the version; star is a " *" at
\* its end
Plain(name, star) ==
    [name |-> name, gap |-> 0, op |-> <<>>, pad |-> 0, version |-> Null, star |-> star]

WrittenAtoms ==
    {Plain(<<n>>, st) : n \in {"S", "Q"}, st \in BOOLEAN}
      \cup [name : {<<"S">>, <<"Q">>}, gap : 0..MaxGap, op : Operators, pad : 0..1,
            version : {V10}, star : BOOLEAN]

LaterAtoms ==
    {Plain(<<"Q">>, FALSE), Plain(<<"Q">>, TRUE),
     [name |-> <<"Q">>, gap |-> 1, op |-> <<">", ">">>, pad |-> 1, version |-> V20,
      star |-> FALSE]}

RECURSIVE WrittenItems(_)
WrittenItems(n) ==
    IF n = 1 THEN {<<a>> : a \in WrittenAtoms}
    ELSE WrittenItems(n - 1)
           \cup {Append(w, a) : w \in {x \in WrittenItems(n - 1) : Len(x) = n - 1},
                                a \in LaterAtoms}

TextOfAtom(a) ==
    a.name
      \o (IF a.op = <<>> THEN <<>>
          ELSE Spaces(a.gap) \o <<"(">> \o a.op \o Spaces(a.pad) \o a.version \o <<")">>)
      \o (IF a.star THEN <<" ", "*">> ELSE <<>>)

RECURSIVE TextOfItem(_)
TextOfItem(w) ==
    IF Len(w) = 1 THEN TextOfAtom(w[1])
    ELSE TextOfAtom(w[1]) \o <<" ", "|", " ">> \o TextOfItem(Tail(w))

FieldTypes == {"PREDEPEND", "DEPEND", "RECOMMEND", "SUGGEST", "CONFLICTS"}

InitDep ==
    /\ written \in WrittenItems(MaxAlternatives)
    /\ dstr = TextOfItem(written)
    /\ dtype \in FieldTypes
    /\ compound = NotCalled
    /\ VerIdle
    /\ ResIdle
    /\ PkgIdle
    /\ MrgIdle
    /\ StIdle
    /\ CfIdle

ParseDepends ==
    /\ compound = NotCalled
    /\ compound' = parseDependsText(dstr, dtype)
    /\ UNCHANGED <<written, dstr, dtype>>

NextDep == ParseDepends /\ UNCHANGED <<verVars, resVars, pkgVars, mrgVars, stVars, cfVars>>

SpecDep == InitDep /\ [][NextDep]_vars

\* the constraint an operator stands for
RefConstraint(op) ==
    CASE op = <<"<", "<">> -> "EARLIER"
      [] op = <<"<", "=">> -> "EARLIER_EQUAL"
      [] op = <<"=">> -> "EQUAL"
      [] op = <<">", "=">> -> "LATER_EQUAL"
      [] op = <<">", ">">> -> "LATER"
      [] op = <<"<">> -> "EARLIER_EQUAL"
      [] op = <<">">> -> "LATER_EQUAL"

RefAtom(a) ==
    IF a.op = <<>> THEN Atom(a.name) ELSE AtomV(a.name, RefConstraint(a.op), a.version)

RefCompound(w, type) ==
    Cd(IF \E j \in 1..Len(w) : w[j].star THEN "GREEDY_DEPEND" ELSE type,
       [j \in 1..Len(w) |-> RefAtom(w[j])])

\* C21: parseDepends turns an item into its atoms in the order written, each
\* with the package named, the version written and the constraint its operator
\* stands for (None without parentheses); the compound has the type of its
\* field, or Greedy when a '*' follows an alternative.
C21_ParseDepends ==
    compound # NotCalled => compound = Returned(RefCompound(written, dtype))

\* the same for the items in which one space stands between a name and its
\* parenthesis
C21_OneSpace ==
    (/\ compound # NotCalled
     /\ \A j \in 1..Len(written) : written[j].op # <<>> => written[j].gap = 1)
        => compound = Returned(RefCompound(written, dtype))

(***************************************************************************)
(* pkg.c: the names of the states, and the Status line.                    *)
(***************************************************************************)
pkg_state_want_map ==
    <<[value |-> "SW_UNKNOWN", str |-> <<"u", "n", "k", "n", "o", "w", "n">>],
      [value |-> "SW_INSTALL", str |-> <<"i", "n", "s", "t", "a", "l", "l">>],
      [value |-> "SW_DEINSTALL", str |-> <<"d", "e", "i", "n", "s", "t", "a", "l", "l">>],
      [value |-> "SW_PURGE", str |-> <<"p", "u", "r", "g", "e">>]>>

pkg_state_flag_map ==
    <<[value |-> "SF_OK", str |-> <<"o", "k">>],
      [value |-> "SF_REINSTREQ", str |-> <<"r", "e", "i", "n", "s", "t", "r", "e", "q">>],
      [value |-> "SF_HOLD", str |-> <<"h", "o", "l", "d">>],
      [value |-> "SF_REPLACE", str |-> <<"r", "e", "p", "l", "a", "c", "e">>],
      [value |-> "SF_NOPRUNE", str |-> <<"n", "o", "p", "r", "u", "n", "e">>],
      [value |-> "SF_PREFER", str |-> <<"p", "r", "e", "f", "e", "r">>],
      [value |-> "SF_OBSOLETE", str |-> <<"o", "b", "s", "o", "l", "e", "t", "e">>],
      [value |-> "SF_USER", str |-> <<"u", "s", "e", "r">>]>>

pkg_state_status_map ==
    <<[value |-> "SS_NOT_INSTALLED", str |-> <<"n", "o", "t", "-", "i", "n", "s", "t", "a", "l", "l", "e", "d">>],
      [value |-> "SS_UNPACKED", str |-> <<"u", "n", "p", "a", "c", "k", "e", "d">>],
      [value |-> "SS_HALF_CONFIGURED", str |-> <<"h", "a", "l", "f", "-", "c", "o", "n", "f", "i", "g", "u", "r", "e", "d">>],
      [value |-> "SS_INSTALLED", str |-> <<"i", "n", "s", "t", "a", "l", "l", "e", "d">>],
      [value |-> "SS_HALF_INSTALLED", str |-> <<"h", "a", "l", "f", "-", "i", "n", "s", "t", "a", "l", "l", "e", "d">>],
      [value |-> "SS_CONFIG_FILES", str |-> <<"c", "o", "n", "f", "i", "g", "-", "f", "i", "l", "e", "s">>],
      [value |-> "SS_POST_INST_FAILED", str |-> <<"p", "o", "s", "t", "-", "i", "n", "s", "t", "-", "f", "a", "i", "l", "e", "d">>],
      [value |-> "SS_REMOVAL_FAILED", str |-> <<"r", "e", "m", "o", "v", "a", "l", "-", "f", "a", "i", "l", "e", "d">>]>>

\* the flags that are written to the status file
NONVOLATILE_FLAGS == {"SF_HOLD", "SF_NOPRUNE", "SF_PREFER", "SF_OBSOLETE", "SF_USER"}

\* the loop over a map: the first entry that the test picks, 0 if none
FirstOf(hits) == IF hits = {} THEN 0 ELSE CHOOSE i \in hits : \A k \in hits : i <= k

MapFind(map, Test(_)) == FirstOf({i \in 1..Len(map) : Test(map[i])})

MapStr(map, i, unknown) == IF i = 0 THEN unknown ELSE map[i].str

MapValue(map, i, unknown) == IF i = 0 THEN unknown ELSE map[i].value

pkg_state_want_to_str(sw) ==
    MapStr(pkg_state_want_map,
           MapFind(pkg_state_want_map, LAMBDA e : e.value = sw),
           <<"<", "S", "T", "A", "T", "E", "_", "W", "A", "N", "T", "_", "U", "N", "K", "N", "O", "W", "N", ">">>)

pkg_state_want_from_str(str) ==
    MapValue(pkg_state_want_map,
             MapFind(pkg_state_want_map, LAMBDA e : e.str = str), "SW_UNKNOWN")

pkg_state_status_to_str(ss) ==
    MapStr(pkg_state_status_map,
           MapFind(pkg_state_status_map, LAMBDA e : e.value = ss),
           <<"<", "S", "T", "A", "T", "E", "_", "S", "T", "A", "T", "U", "S", "_", "U", "N", "K", "N", "O", "W", "N", ">">>)

pkg_state_status_from_str(str) ==
    MapValue(pkg_state_status_map,
             MapFind(pkg_state_status_map, LAMBDA e : e.str = str), "SS_NOT_INSTALLED")

\* sf & value and sf | value, state_flag being held as the set of its bits;
\* SF_OK is 0
HasFlag(sf, value) == value \in sf

WithFlag(sf, value) == IF value = "SF_OK" THEN sf ELSE sf \cup {value}

\* the second loop of pkg_state_flag_to_str: every name with a comma
RECURSIVE FlagStrFrom(_, _)
FlagStrFrom(sf, i) ==
    IF i > Len(pkg_state_flag_map) THEN <<>>
    ELSE (IF HasFlag(sf, pkg_state_flag_map[i].value)
          THEN pkg_state_flag_map[i].str \o <<",">> ELSE <<>>)
           \o FlagStrFrom(sf, i + 1)

\* squash last comma
Squashed(str) == SubSeq(str, 1, Len(str) - 1)

pkg_state_flag_to_str(sf) ==
    IF sf \cap NONVOLATILE_FLAGS = {} THEN <<"o", "k">>
    ELSE Squashed(FlagStrFrom(sf \cap NONVOLATILE_FLAGS, 1))

\* the loop of pkg_state_flag_from_str from the i-th name on: a name that
\* str starts with is taken, and the loop goes on after a comma
RECURSIVE FlagFromStrLoop(_, _, _)
FlagTaken_First(str, i, sf, sfname_len) == sf

FlagTaken(str, i, sf, sfname_len) ==
    IF Len(str) > sfname_len /\ str[sfname_len + 1] = ","
    THEN FlagFromStrLoop(SubSeq(str, sfname_len + 2, Len(str)), i + 1, sf)
    ELSE sf

FlagFromStrLoop(str, i, sf) ==
    IF i > Len(pkg_state_flag_map) THEN sf
    ELSE IF StartsWith(str, pkg_state_flag_map[i].str)
    THEN FlagTaken(str, i, WithFlag(sf, pkg_state_flag_map[i].value),
                   Len(pkg_state_flag_map[i].str))
    ELSE FlagFromStrLoop(str, i + 1, sf)

pkg_state_flag_from_str(str) ==
    IF str = <<"o", "k">> THEN {} ELSE FlagFromStrLoop(str, 1, {})

\* the Status branch of pkg_formatted_field: what follows "Status:"
FormatStatus(pkg) ==
    <<" ">> \o pkg_state_want_to_str(pkg.state_want) \o <<" ">>
      \o pkg_state_flag_to_str(pkg.state_flag) \o <<" ">>
      \o pkg_state_status_to_str(pkg.state_status)

\* a line of a stanza: the name of its field and what follows the colon
TextLine(field, text) == [field |-> field, text |-> text]

\* pkg_print_status, as far as the Package and Status fields go
pkg_print_status(pkg) ==
    <<TextLine("Package", <<" ">> \o pkg.name), TextLine("Status", FormatStatus(pkg))>>

(***************************************************************************)
(* pkg_parse.c: parse_status and pkg_parse_from_stream, for the Package    *)
(* and Status lines of a stanza.                                           *)
(***************************************************************************)
\* the words sscanf reads with %s from the i-th character on
RECURSIVE Words(_, _)
WordsAfter(text, word) ==
    IF word.tok = Null THEN <<>> ELSE <<word.tok>> \o Words(text, word.next)

Words(text, i) == WordsAfter(text, strtok(text, i, {" "}))

\* sscanf(sstr, "Status: %63s %63s %63s", sw_str, sf_str, ss_str) = 3
StatusFields(pkg, w) ==
    IF Len(w) < 3 THEN pkg
    ELSE [pkg EXCEPT !.state_want = pkg_state_want_from_str(w[1]),
                     !.state_flag = @ \cup pkg_state_flag_from_str(w[2]),
                     !.state_status = pkg_state_status_from_str(w[3])]

parse_status(pkg, text) == StatusFields(pkg, Words(text, 1))

\* pkg->name = parse_simple("Package", line)
parse_simple(text) == trim_xstrdup(text)

\* pkg_init, for the fields of the Status line
pkg_init ==
    [name |-> Null, state_want |-> "SW_UNKNOWN", state_flag |-> {},
     state_status |-> "SS_NOT_INSTALLED"]

StatusLine(pkg, line) ==
    CASE line.field = "Package" -> [pkg EXCEPT !.name = parse_simple(line.text)]
      [] line.field = "Status" -> parse_status(pkg, line.text)
      [] OTHER -> pkg

\* parse_from_stream_nomalloc: pkg_parse_line on every line of the stanza
RECURSIVE StreamFrom(_, _, _)
StreamFrom(pkg, st, i) ==
    IF i > Len(st) THEN pkg ELSE StreamFrom(StatusLine(pkg, st[i]), st, i + 1)

\* pkg_parse_from_stream: 1 when the stanza gave no name
StreamResult(pkg) == [ret |-> IF pkg.name = Null THEN 1 ELSE 0, pkg |-> pkg]

pkg_parse_from_stream(pkg, st) == StreamResult(StreamFrom(pkg, st, 1))

(***************************************************************************)
(* The Status line as a state machine: a record is printed and the stanza  *)
(* printed is parsed into a fresh record; or a stanza written by hand,     *)
(* with or without a Package line and with a Status line of some words, is *)
(* parsed.                                                                 *)
(***************************************************************************)
\* the most words of a Status line written by hand
MaxWords == 4

Records ==
    [name : {<<"P">>}, state_want : {"SW_UNKNOWN", "SW_INSTALL", "SW_DEINSTALL", "SW_PURGE"},
     state_flag : {nv \cup v : nv \in SUBSET NONVOLATILE_FLAGS,
                               v \in {{}, {"SF_REINSTREQ"},
                                      {"SF_REPLACE", "SF_FILELIST_CHANGED"}}},
     state_status : {pkg_state_status_map[i].value : i \in 1..Len(pkg_state_status_map)}]

WordOf(k) ==
    CASE k = 1 -> <<"i", "n", "s", "t", "a", "l", "l">>
      [] k = 2 -> <<"h", "o", "l", "d">>
      [] k = 3 -> <<"i", "n", "s", "t", "a", "l", "l", "e", "d">>
      [] OTHER -> <<"x">>

RECURSIVE WordsText(_, _, _)
WordsText(k, n, sep) ==
    IF k > n THEN <<>> ELSE Spaces(sep) \o WordOf(k) \o WordsText(k + 1, n, sep)

\* the stanzas written by hand: n is the number of words of the Status line
HandStanza(named, status, n, sep) ==
    (IF named THEN <<TextLine("Package", <<" ", "P">>)>> ELSE <<>>)
      \o (IF status THEN <<TextLine("Status", WordsText(1, n, sep))>> ELSE <<>>)

InitSt ==
    /\ \/ /\ rec \in Records
          /\ stanza = <<>>
          /\ spc = "record"
       \/ /\ rec = pkg_init
          /\ \E named \in BOOLEAN, status \in BOOLEAN, n \in 0..MaxWords, sep \in 1..2 :
                stanza = HandStanza(named, status, n, sep)
          /\ spc = "text"
    /\ parsed = NotCalled
    /\ VerIdle
    /\ ResIdle
    /\ PkgIdle
    /\ MrgIdle
    /\ DepIdle
    /\ CfIdle

PrintStatus ==
    /\ spc = "record"
    /\ stanza' = pkg_print_status(rec)
    /\ spc' = "printed"
    /\ UNCHANGED <<rec, parsed>>

ParseStanza ==
    /\ spc \in {"printed", "text"}
    /\ parsed' = Returned(pkg_parse_from_stream(pkg_init, stanza))
    /\ spc' = IF spc = "printed" THEN "reparsed" ELSE "parsed"
    /\ UNCHANGED <<rec, stanza>>

NextSt ==
    \/ PrintStatus /\ UNCHANGED <<verVars, resVars, pkgVars, mrgVars, depVars, cfVars>>
    \/ ParseStanza /\ UNCHANGED <<verVars, resVars, pkgVars, mrgVars, depVars, cfVars>>

SpecSt == InitSt /\ [][NextSt]_vars

\* the name a map gives a value
RefName(map, value) == map[CHOOSE i \in 1..Len(map) : map[i].value = value].str

RECURSIVE CommaJoin(_)
CommaJoin(names) ==
    IF Len(names) = 1 THEN names[1]
    ELSE names[1] \o <<",">> \o CommaJoin(Tail(names))

RECURSIVE CommaSplit(_, _)
CommaSplitAfter(text, name) ==
    IF name.tok = Null THEN <<>> ELSE <<name.tok>> \o CommaSplit(text, name.next)

CommaSplit(text, i) == CommaSplitAfter(text, strtok(text, i, {","}))

\* the text is the comma-joined list of the names of the flags nv
RefFlagList(text, names, nv) ==
    /\ names # <<>>
    /\ text = CommaJoin(names)
    /\ Len(names) = Cardinality(nv)
    /\ Range(names) = {RefName(pkg_state_flag_map, f) : f \in nv}

\* the words of the Status line are the want, the flags and the status of r
RefStatusWords(r, w) ==
    /\ Len(w) = 3
    /\ w[1] = RefName(pkg_state_want_map, r.state_want)
    /\ IF r.state_flag \cap NONVOLATILE_FLAGS = {} THEN w[2] = <<"o", "k">>
       ELSE RefFlagList(w[2], CommaSplit(w[2], 1), r.state_flag \cap NONVOLATILE_FLAGS)
    /\ w[3] = RefName(pkg_state_status_map, r.state_status)

\* C22: the Status line printed for a record is "want flags status", flags
\* being the comma-joined names of the non-volatile flags of the record, or
\* "ok" when it has none; parsing the stanza printed gives the state_want, the
\* non-volatile flags and the state_status of the record.
C22_StatusRoundTrip ==
    /\ spc \in {"printed", "reparsed"} =>
           /\ stanza[2].field = "Status"
           /\ RefStatusWords(rec, Words(stanza[2].text, 1))
    /\ spc = "reparsed" =>
           /\ parsed.val.ret = 0
           /\ parsed.val.pkg.state_want = rec.state_want
           /\ parsed.val.pkg.state_flag = rec.state_flag \cap NONVOLATILE_FLAGS
           /\ parsed.val.pkg.state_status = rec.state_status

\* a record to be purged, half-configured, held, marked by the user and in
\* need of reinstallation: "purge hold,user half-configured" and back
C22_Witness ==
    /\ spc = "reparsed"
    /\ rec.state_want = "SW_PURGE"
    /\ rec.state_flag = {"SF_HOLD", "SF_USER", "SF_REINSTREQ"}
    /\ rec.state_status = "SS_HALF_CONFIGURED"
    /\ parsed.val.pkg.state_flag = {"SF_HOLD", "SF_USER"}

\* the stanza has no Package line, or a Status line that has not three words
RefMalformed(st) ==
    \/ \A k \in 1..Len(st) : st[k].field # "Package"
    \/ \E k \in 1..Len(st) : st[k].field = "Status" /\ Len(Words(st[k].text, 1)) # 3

\* C23: parsing a stanza reports failure, and the record is skipped, exactly
\* when the stanza has no Package field or its Status line has fewer or more
\* than three words.
C23_Malformed ==
    spc = "parsed" => (parsed.val.ret # 0 <=> RefMalformed(stanza))

\* the part that holds: failure is reported exactly for a stanza without a
\* Package field, and a Status line of fewer than three words changes nothing
C23_NoPackage ==
    spc = "parsed" =>
        /\ parsed.val.ret # 0 <=> \A k \in 1..Len(stanza) : stanza[k].field # "Package"
        /\ (\E k \in 1..Len(stanza) :
                stanza[k].field = "Status" /\ Len(Words(stanza[k].text, 1)) < 3)
              => /\ parsed.val.pkg.state_want = "SW_UNKNOWN"
                 /\ parsed.val.pkg.state_status = "SS_NOT_INSTALLED"

(***************************************************************************)
(* conffile.c: conffile_has_been_modified.  A file is readable or not and  *)
(* has a content; a digest is the text of its hexadecimal digits.          *)
(***************************************************************************)
\* the digests of a content: 32 and 64 hexadecimal digits
Md5Hex(content) == [k \in 1..32 |-> content]

Sha256Hex(content) == [k \in 1..64 |-> content]

file_md5sum_alloc(f) == IF f.readable THEN Md5Hex(f.content) ELSE Null

file_sha256sum_alloc(f) == IF f.readable THEN Sha256Hex(f.content) ELSE Null

\* strcmp(s1, s2) from the i-th character on
RECURSIVE StrcmpFrom(_, _, _)
StrcmpFrom(s1, s2, i) ==
    IF At(s1, i) # At(s2, i) THEN Ascii(At(s1, i)) - Ascii(At(s2, i))
    ELSE IF At(s1, i) = NUL THEN 0
    ELSE StrcmpFrom(s1, s2, i + 1)

strcmp(s1, s2) == StrcmpFrom(s1, s2, 1)

\* lines 51-59: the digest computed, in a build with HAVE_MD5 and in one
\* without
ChecksumOf_AlwaysMd5(cf, f, md5) == file_md5sum_alloc(f)

ChecksumOf(cf, f, md5) ==
    IF md5
    THEN IF Len(cf.value) > 33 THEN file_sha256sum_alloc(f) ELSE file_md5sum_alloc(f)
    ELSE file_sha256sum_alloc(f)

\* line 60: chksum && (ret = strcmp(chksum, conffile->value)), ret being 1
CompareChecksum(chksum, value) == IF chksum # Null THEN strcmp(chksum, value) ELSE 1

conffile_has_been_modified(cf, f, md5) ==
    IF cf.value = Null THEN 1
    ELSE CompareChecksum(ChecksumOf(cf, f, md5), cf.value)

(***************************************************************************)
(* conffile_has_been_modified as a state machine: one call, for a recorded *)
(* digest, a file and a build.                                             *)
(***************************************************************************)
Contents == {"a", "b", "c"}

RecordedDigests ==
    {Null, <<>>, Md5Hex("a") \o <<"a">>, Sha256Hex("a") \o <<"a">>, [k \in 1..34 |-> "a"]}
      \cup {Md5Hex(c) : c \in Contents} \cup {Sha256Hex(c) : c \in Contents}

Files ==
    {[readable |-> FALSE, content |-> "a"]} \cup [readable : {TRUE}, content : Contents]

InitCf ==
    /\ conffile \in [name : {<<"f">>}, value : RecordedDigests]
    /\ file \in Files
    /\ have_md5 \in BOOLEAN
    /\ modified = NotCalled
    /\ VerIdle
    /\ ResIdle
    /\ PkgIdle
    /\ MrgIdle
    /\ DepIdle
    /\ StIdle

HasBeenModified ==
    /\ modified.rc = "not called"
    /\ modified' = Returned(conffile_has_been_modified(conffile, file, have_md5))
    /\ UNCHANGED <<conffile, file, have_md5>>

NextCf == HasBeenModified /\ UNCHANGED <<verVars, resVars, pkgVars, mrgVars, depVars, stVars>>

SpecCf == InitCf /\ [][NextCf]_vars

\* the digest the recorded one is to be compared with: SHA-256 for a recorded
\* digest of more than 33 characters, MD5 otherwise
RefDigest(value, content) ==
    IF Len(value) > 33 THEN Sha256Hex(content) ELSE Md5Hex(content)

RefModified(cf, f, r) ==
    IF cf.value = Null \/ ~f.readable THEN r # 0
    ELSE r = 0 <=> RefDigest(cf.value, f.content) = cf.value

\* C24: conffile_has_been_modified returns non-zero when there is no recorded
\* digest or the file cannot be read; otherwise it returns zero exactly when
\* the recorded digest equals the SHA-256 of the file, for a recorded digest
\* of more than 33 characters, or its MD5, for a shorter one.
C24_Modified ==
    modified.rc = "returned" => RefModified(conffile, file, modified.val)

\* C24, amended: in a build with HAVE_MD5 it is as stated; in a build without
\* HAVE_MD5 the digest computed is the SHA-256 of the file whatever the length
\* of the recorded digest, so zero is returned exactly when the recorded digest
\* equals the SHA-256 of the file.
C24_PerBuild ==
    modified.rc = "returned" =>
        IF have_md5 THEN RefModified(conffile, file, modified.val)
        ELSE IF conffile.value = Null \/ ~file.readable THEN modified.val # 0
        ELSE modified.val = 0 <=> Sha256Hex(file.content) = conffile.value

\* a build without HAVE_MD5, a file that is unchanged since its MD5 was
\* recorded: modified
C24_Witness ==
    /\ modified.rc = "returned"
    /\ ~have_md5
    /\ file.readable
    /\ conffile.value = Md5Hex(file.content)
    /\ modified.val # 0

(***************************************************************************)
(* Claims about what a traversal leaves behind: the visit flags, the       *)
(* closure and the order of to_install, and the requested package itself.  *)
(***************************************************************************)
\* the caller's call is at its entry, for a package whose abstract package
\* carries the visit flag of an earlier call
EntersVisited ==
    /\ phase = "running"
    /\ Len(stack) = 1
    /\ stack[1].pc = "entry"
    /\ checked[db[stack[1].pkg].name]

\* the call returns 0 with a null unresolved list, and nothing has changed
ReturnsNothing ==
    /\ phase' = "done"
    /\ result'.pkg = call.pkg
    /\ result'.rc = 0
    /\ result'.unresolved = <<>>
    /\ result'.to_install = vecs[1]
    /\ vecs' = vecs
    /\ db' = db
    /\ checked' = checked

\* C25: a call for a package whose abstract package was visited by an earlier
\* call, with dependencies_checked not cleared since, returns 0 with a null
\* unresolved list and leaves the caller's to_install as it was, whatever the
\* dependencies of the package are.
C25_VisitFlagsPersist == [][EntersVisited => ReturnsNothing]_vars

\* a second call, for a package that the first call put in to_install and
\* that has dependencies, has returned 0
C25_Witness ==
    /\ phase = "done" /\ runs = 2
    /\ ~call.clean
    /\ call.pkg # first.pkg
    /\ call.pkg \in Range(first.to_install)
    /\ db[call.pkg].depends # <<>>
    /\ first.unresolved # <<>>
    /\ result.rc = 0 /\ result.unresolved = <<>> /\ result.to_install = <<>>

\* some atom of the compound has an installed satisfier, or a satisfier that
\* is one of the packages
Met(d, cd, pkgs) ==
    \E j \in 1..Len(cd.possibilities) :
        \/ InstalledSatisfier(d, cd.possibilities[j])
        \/ \E s \in pkgs : RefCandidate(d, s, cd.possibilities[j])

\* every Depend and PreDepend compound of q is met, by an installed package,
\* a package of to_install or the requested package itself, or is listed in
\* unresolved
Closed(d, q, r) ==
    \A i \in 1..Len(d[q].depends) :
        d[q].depends[i].type \in {"DEPEND", "PREDEPEND"}
          => \/ Met(d, d[q].depends[i], Range(r.to_install) \cup {r.pkg})
             \/ RefPrintable(d[q].depends[i].possibilities) \in Range(r.unresolved)

HasGreedy(d) ==
    \E q \in 1..Len(d) : \E i \in 1..Len(d[q].depends) :
        d[q].depends[i].type = "GREEDY_DEPEND"

\* C26: after a call from clean flags and an empty to_install, every Depend
\* and PreDepend compound of the package and of every package in to_install
\* has an installed satisfier, or a satisfier in to_install (the requested
\* package, which is about to be installed, counts as one), or is listed in
\* unresolved.
C26_Closed ==
    (phase = "done" /\ call.clean) =>
        \A q \in {call.pkg} \cup Range(result.to_install) : Closed(db, q, result)

\* the same on the databases without a Greedy compound
C26_ClosedWithoutGreedy ==
    (phase = "done" /\ call.clean /\ ~HasGreedy(db)) =>
        \A q \in {call.pkg} \cup Range(result.to_install) : Closed(db, q, result)

IsPrefix(s, t) == Len(s) <= Len(t) /\ SubSeq(t, 1, Len(s)) = s

\* a call in progress only ever appends to a list
AppendsOnly ==
    \A v \in 1..Len(vecs) : v <= Len(vecs') => IsPrefix(vecs[v], vecs'[v])

\* the call made for a satisfier has returned to the frame that made it
Returned_To_Caller == phase = "running" /\ Top.pc = "wait_normal"

\* C27: what is inserted into to_install stays where it is, and the satisfier
\* of a Depend, PreDepend or Recommend compound is inserted last, when the
\* call made for it has returned: everything that call inserted, which is
\* what the dependencies of the satisfier brought in, is at a lower index.
C27_DependenciesFirst ==
    [][/\ phase = "running" => AppendsOnly
       /\ Returned_To_Caller
            => vecs'[Top.vec] = Append(vecs[Top.vec], Top.satisfier)]_vars

\* P depends on S and S on Q, an acyclic database: Q, then S
C27_Witness ==
    /\ phase = "done" /\ runs = 1
    /\ db[1].depends = <<Cd("DEPEND", <<Atom("S")>>)>>
    /\ db[2].depends = <<Cd("DEPEND", <<Atom("Q")>>)>>
    /\ db[3].depends = <<>>
    /\ result.to_install = <<3, 2>>

\* C28: the to_install of a call never holds the package the call was made
\* for.
C28_NotItself ==
    phase = "done" => result.pkg \notin Range(result.to_install)

\* the same on the databases where no other package depends on or recommends
\* the requested package
C28_NotItselfUnlessNamed ==
    (/\ phase = "done"
     /\ \A q \in 1..Len(db) : \A i \in 1..Len(db[q].depends) :
            (q # result.pkg /\ db[q].depends[i].type # "SUGGEST")
              => \A j \in 1..Len(db[q].depends[i].possibilities) :
                     ~Provides(db[result.pkg], db[q].depends[i].possibilities[j]))
      => result.pkg \notin Range(result.to_install)

(***************************************************************************)
(* Claims about the provider collections and the dependency fields of the  *)
(* formatter.                                                              *)
(***************************************************************************)
NoRepeat(vec) == \A i, j \in 1..Len(vec) : i # j => vec[i] # vec[j]

\* C29: whatever field lines were parsed, no abstract package has the same
\* provider twice in its provided_by.
C29_ProvidersAreASet ==
    \A a \in AbstractNames : NoRepeat(ab[a].provided_by)

\* the same as long as no Replaces line was parsed
C29_WithoutReplaces ==
    (\A k \in 1..Len(lines) : lines[k].field # "Replaces")
      => \A a \in AbstractNames : NoRepeat(ab[a].provided_by)

(***************************************************************************)
(* The dependency fields of a stanza in any order: the lines Pre-Depends,  *)
(* Depends, Recommends and Suggests of the stanza of P are parsed one item *)
(* at a time into PKG_DEPENDS, a Provides line into PKG_PROVIDES, and P is *)
(* printed.                                                                *)
(***************************************************************************)
FieldOf(type) ==
    CASE type = "PREDEPEND" -> "Pre-Depends"
      [] type = "DEPEND" -> "Depends"
      [] type = "RECOMMEND" -> "Recommends"
      [] type = "SUGGEST" -> "Suggests"

\* an alternative as parseDepends cuts it: the name, the text between the
\* parentheses, and whether a '*' follows
Alt(name, vstr, star) == [ok |-> TRUE, name |-> name, vstr |-> vstr, star |-> star]

DependencyItems ==
    {<<Alt("S", Null, FALSE)>>, <<Alt("Q", Null, FALSE)>>,
     <<Alt("X", Null, FALSE), Alt("S", <<">", "=", " ", "1", ".", "0">>, FALSE)>>,
     <<Alt("S", Null, TRUE)>>}

ProvidesItems == {<<"V">>, <<"V", "X">>, <<"V", "X", "Q">>}

InitFmt ==
    /\ PkgIdle
    /\ VerIdle
    /\ ResIdle
    /\ MrgIdle
    /\ TxtIdle

\* parse_deplist on a line of one item: the compound parseDepends makes of
\* it is stored behind those PKG_DEPENDS holds already
ParseDependency(type, item) ==
    /\ Alive
    /\ Len(lines) < MaxLines
    /\ the_pkg' = [the_pkg EXCEPT !.depends = @ \o <<CompoundOf(item, type).val>>]
    /\ lines' = Append(lines, Line(FieldOf(type), <<item>>))
    /\ UNCHANGED <<world, ab, fault, confl, out, back>>

\* the Provides line of the stanza
ParseProvides(items, u) ==
    /\ the_pkg.provides = NoBlob
    /\ ParseLine(Line("Provides", items), u)

NextFmt ==
    \/ \E type \in {"PREDEPEND", "DEPEND", "RECOMMEND", "SUGGEST"},
          item \in DependencyItems :
          ParseDependency(type, item) /\ UNCHANGED <<verVars, resVars, mrgVars, txtVars>>
    \/ \E items \in ProvidesItems, u \in Outcomes :
          ParseProvides(items, u) /\ UNCHANGED <<verVars, resVars, mrgVars, txtVars>>
    \/ \E u \in Outcomes : Format(u) /\ UNCHANGED <<verVars, resVars, mrgVars, txtVars>>

SpecFmt == InitFmt /\ [][NextFmt]_vars

\* the lines of a field among those printed
FieldsOf(ls, field) == SelectSeq(ls, LAMBDA l : l.field = field)

\* the field of a kind by the words of the specification: the compounds of
\* the kind, each rendered from its own atoms, in their order; no line when
\* there is none
RefKindField(pkg, type) ==
    LET deps == SelectSeq(pkg.depends, LAMBDA cd : cd.type = type)
    IN IF deps = <<>> THEN <<>>
       ELSE <<Line(FieldOf(type),
                   [k \in 1..Len(deps) |->
                      [j \in 1..Len(deps[k].possibilities) |->
                         PossibilityText(deps[k].possibilities[j])]])>>

RefProvidesField(pkg) ==
    IF ProvidedNames(pkg) = <<>> THEN <<>>
    ELSE <<Line("Provides", ProvidedNames(pkg))>>

DependencyFieldsRight(type) ==
    FieldsOf(out.val, FieldOf(type)) = RefKindField(the_pkg, type)

\* C30: for every mix and order of the compounds of P, the Depends,
\* Recommends and Suggests fields printed list exactly the compounds of their
\* kind, each rendered from its own atoms, in their order, and are omitted
\* when there is none; the Provides field printed lists every provided name
\* but P's own, in their order.
C30_Fields ==
    out.rc # "not called" =>
        /\ out.rc = "returned"
        /\ \A type \in {"DEPEND", "RECOMMEND", "SUGGEST"} : DependencyFieldsRight(type)
        /\ FieldsOf(out.val, "Provides") = RefProvidesField(the_pkg)

\* the dependency field of a kind is as C30 says when P has no compound of
\* the kind or its first compound is of the kind
C30_WhenKindIsFirst ==
    out.rc = "returned" =>
        \A type \in {"DEPEND", "RECOMMEND", "SUGGEST"} :
            pkg_get_depends(the_pkg, type) \in {0, 1} => DependencyFieldsRight(type)

\* the dependency fields alone, whatever the Provides field
C30_DependencyFields ==
    out.rc = "returned" =>
        \A type \in {"DEPEND", "RECOMMEND", "SUGGEST"} : DependencyFieldsRight(type)

====
